---- MODULE Spec2Model ----
(***************************************************************************)
(* Model of the PDF rendering performance test (pdf_perf_test):            *)
(*   LoadTester  (core/load_tester.py)  batch dispatch under a cap         *)
(*   TestRunner  (core/runner.py)       phases, queue drain wait           *)
(*   Verifier    (core/verifier.py)     existence polling with a timeout   *)
(*                                                                         *)
(* Time is a global wall clock `now` counted in ticks of 0.2 s (the drain  *)
(* wait sleeps 0.2 s, the verifier's interval and timeout are whole        *)
(* seconds).  A network call (POST, SQS, S3) is answered at once or after  *)
(* a second.  Job IDs issued by the submission endpoint are pairwise       *)
(* distinct.                                                               *)
(***************************************************************************)
EXTENDS Integers, Sequences, FiniteSets, TLC

(* ---------------------------- bounds ---------------------------------- *)
MaxRequests == 3
MaxConcurrency == 2
MaxPolls == 3
MaxJobs == 2
MaxTimeout == 2
MaxInterval == 2
MaxSampleInput == 5

(* ------------------------ program constants --------------------------- *)
TicksPerSecond == 5
DrainSleepTicks == 1
MaxSample == 100
ProgressEvery == 100

(* --------------------------- variables -------------------------------- *)
VARIABLES
  entry,                \* which entry point built the configuration
  config,               \* the Config object
  now,                  \* wall clock, in ticks
  lt_pc,                \* position of LoadTester.run
  lt_start_time,        \* LoadTester.start_time
  lt_end_time,          \* LoadTester.end_time
  job_ids,              \* LoadTester.job_ids
  latencies,            \* LoadTester.latencies, entries <<batch_latency, batch_size>>
  successful_requests,  \* LoadTester.successful_requests
  tasks,                \* the list of batch coroutines (their batch_start)
  chunk_i,              \* loop variable i of the gather loop
  batch,                \* per batch task: position, start time, POSTs issued
  last,                 \* history: the batch task that returned most recently
  outcome_total,        \* history: per-request outcomes returned, over all batches
  marked_processed,     \* history: success-marked results of batches that did not fail
  failed_batch_ids,     \* history: job IDs recorded by batches that returned all-failed
  next_job_id,          \* the submission endpoint's job-ID counter
  lt_results,           \* the dict returned by LoadTester.run
  progress,             \* history: the counts named by the progress reports
  job_ids_file,         \* disk: the lines of test_dir/job_ids.txt
  rn_pc,                \* position of TestRunner.run ("standalone": no runner)
  rn_start_time,        \* TestRunner.start_time
  rn_end_time,          \* TestRunner.end_time
  sqs_calls,            \* history: get_queue_url and get_queue_attributes calls issued
  sqs_errors,           \* history: how many of those calls raised
  readings,             \* history: the queue depths read, one per successful poll
  last_poll_time,       \* history: the time at which the latest poll was answered
  queue_empty_time,     \* return value of _wait_for_empty_queue
  processing_time,      \* queue_empty_time - start_time
  rn_results,           \* the dict returned by TestRunner.run
  report_file,          \* disk: performance_test_results.json ("none": not written)
  interrupted_in,       \* history: the phase in which the operator's interrupt arrived
  vf_pc,                \* position of Verifier.verify
  vf_job_ids,           \* Verifier.job_ids
  total_jobs,           \* local total_jobs of verify
  completed_jobs,       \* Verifier.completed_jobs
  vf_start_time,        \* Verifier.start_time
  vf_end_time,          \* Verifier.end_time
  jobs_to_check,        \* the rest of the current round's jobs_to_check
  round_test_time,      \* history: the time of the latest loop test that passed
  round_io,             \* history: time spent in the latest round's head_object calls
  head_calls,           \* history: number of head_object calls issued
  sleeps,               \* history: number of interval sleeps taken
  vf_results,           \* the dict returned by Verifier.verify
  verify_calls,         \* history: number of calls of verify on this Verifier
  prev_call,            \* history: result and counters of the previous verify call
  prev_failed,          \* history: jobs whose check raised in the previous round
  round_failed,         \* history: jobs whose check raised in the current round
  last_head,            \* history: the answer of the latest head_object call
  sample_ids,           \* argument job_ids of a call of _sample_job_ids
  sample_cap,           \* argument max_sample of that call
  sample_out,           \* its return value
  load_results_file,    \* disk: load_test_results.json (status "none": not written)
  proc,                 \* the process running main: position and exit code
  written,              \* history: the files this run has written, in order
  sr_pc,                \* position of send_request
  sr_max_retries,       \* argument max_retries of send_request
  sr_retry_delay,       \* argument retry_delay, in seconds
  sr_start_time,        \* local start_time of send_request
  retries,              \* local retries
  sr_job_id,            \* local job_id
  stats,                \* argument stats: the list of durations
  attempts,             \* history: POSTs issued by send_request
  sr_slept,             \* history: the sleeps taken, as a list of their lengths
  observed,             \* history: what each POST of send_request met, in order
  sa_pc,                \* position of send_all_requests
  sa_limit,             \* argument concurrency_limit
  sa_start,             \* total_start_time
  sem_value,            \* the semaphore's counter
  sem_waiters,          \* the semaphore's queue of waiting tasks
  sa_req,               \* per send_request task: position, retries, wake time, job ID
  sa_total,             \* total_duration_seconds, in ticks
  rt_pc,                \* position of the save and load of job_ids.txt
  rt_job_ids,           \* the job IDs the dispatcher recorded, as strings
  rt_file,              \* disk: the text of job_ids.txt, character by character
  rt_loaded             \* return value of Verifier.load_job_ids

ltVars == <<lt_pc, lt_start_time, lt_end_time, job_ids, latencies,
            successful_requests, tasks, chunk_i, batch, last, outcome_total,
            marked_processed, failed_batch_ids, next_job_id, lt_results,
            progress>>

rnVars == <<rn_pc, rn_start_time, rn_end_time, sqs_calls, sqs_errors, readings,
            last_poll_time, queue_empty_time, processing_time, rn_results>>

vfVars == <<vf_pc, vf_job_ids, total_jobs, completed_jobs, vf_start_time,
            vf_end_time, jobs_to_check, round_test_time, round_io, head_calls,
            sleeps, vf_results, verify_calls, prev_call, prev_failed,
            round_failed, last_head>>

\* The arguments and the result of a direct call of _sample_job_ids.
fnVars == <<sample_ids, sample_cap, sample_out>>

\* send_request of send_fake_requests.py
srVars == <<sr_pc, sr_max_retries, sr_retry_delay, sr_start_time, retries,
            sr_job_id, stats, attempts, sr_slept, observed>>

\* send_all_requests of send_fake_requests.py
saVars == <<sa_pc, sa_limit, sa_start, sem_value, sem_waiters, sa_req, sa_total>>

\* job_ids.txt written by _save_results and read by load_job_ids
rtVars == <<rt_pc, rt_job_ids, rt_file, rt_loaded>>

\* State outside the three components: the process that runs main, and the
\* functions that are called on their own.
sideVars == <<srVars, saVars, rtVars, proc, written>>

vars == <<sideVars, fnVars, interrupted_in, report_file, entry, config, now,
          ltVars, job_ids_file, load_results_file, rnVars, vfVars>>

(* ------------------------- configuration ------------------------------ *)
\* run_perf_test.main copies --batch-size into config.batch_size;
\* pdf_perf_test.main uses Config.parse_args, which never sets it.
EntryPoints == {"run_perf_test", "pdf_perf_test.main"}

\* has_batch_size: whether the Config object has the attribute at all.
\* interval and timeout are whole seconds.
ConfigFor(e, r, b, c, i, t) ==
  [requests |-> r,
   has_batch_size |-> (e = "run_perf_test"),
   batch_size |-> IF e = "run_perf_test" THEN b ELSE 0,
   concurrency |-> c,
   interval |-> i,
   timeout |-> t]

BatchSizes == {1, 2}

\* The configurations of a dispatch run (the verifier's settings at their
\* smallest values: dispatch does not read them).
LoadConfigs(e) ==
  {ConfigFor(e, r, b, c, 1, 1) : r \in 0..MaxRequests, b \in BatchSizes,
                                 c \in 1..MaxConcurrency}

\* The durations of one network call, in ticks.
CallTimes == {0, TicksPerSecond}

\* Range with the stop value included.
RECURSIVE RangeInclusive(_, _, _)
RangeInclusive(start, stop, step) ==
  IF start > stop THEN <<>>
  ELSE <<start>> \o RangeInclusive(start + step, stop, step)

(* range(start, stop, step) for step > 0, as a sequence *)
RECURSIVE Range(_, _, _)
Range(start, stop, step) ==
  IF start >= stop THEN <<>>
  ELSE <<start>> \o Range(start + step, stop, step)

\* The cap taken from the wrong configuration field.
ConcurrencyAsRequests == config.requests

\* config.concurrency as read by LoadTester.run (connector limit, chunk size)
Concurrency == config.concurrency

(* ---------------------- submission endpoint --------------------------- *)
\* One entry of the "results" array of a response body.
ResultEntries == {"success", "failed", "success_no_id"}

RECURSIVE SeqsUpTo(_, _)
SeqsUpTo(S, n) ==
  IF n = 0 THEN {<<>>}
  ELSE LET shorter == SeqsUpTo(S, n - 1)
       IN shorter \cup {Append(s, x) : s \in {q \in shorter : Len(q) = n - 1}, x \in S}

\* What a batch task can observe for its POST.
Responses(b) ==
  {[kind |-> "exception", status |-> 0, results |-> <<>>],
   [kind |-> "malformed", status |-> 200, results |-> <<>>],
   [kind |-> "http", status |-> 500, results |-> <<>>],
   [kind |-> "http", status |-> 202, results |-> <<>>],
   [kind |-> "http", status |-> 202, results |-> <<"success">>]}
  \cup {[kind |-> "http", status |-> 200, results |-> rs] :
          rs \in SeqsUpTo(ResultEntries, b + 1)}

(* ------------------------ LoadTester ---------------------------------- *)
NewBatch == [pc |-> "created", start_time |-> 0, posts |-> 0, payload |-> <<>>]

\* No batch task has returned yet.
NoBatch == [outcome |-> "none", ret |-> <<>>, added |-> 0]

RepeatFalse(n) == [k \in 1..n |-> FALSE]

\* The results loop with the counter incremented before result["job_id"]
\* is evaluated.
RECURSIVE ProcessResultsCountFirst(_, _, _)
ProcessResultsCountFirst(rs, lat, st) ==
  IF rs = <<>> THEN st
  ELSE IF Head(rs) = "success"
    THEN ProcessResultsCountFirst(Tail(rs), lat,
           [st EXCEPT !.job_ids = Append(@, st.next_id),
                      !.latencies = Append(@, lat),
                      !.successful = @ + 1,
                      !.batch_results = Append(@, TRUE),
                      !.added = @ + 1,
                      !.next_id = @ + 1])
  ELSE IF Head(rs) = "success_no_id"
    THEN [st EXCEPT !.successful = @ + 1, !.raised = TRUE]
  ELSE ProcessResultsCountFirst(Tail(rs), lat,
           [st EXCEPT !.batch_results = Append(@, FALSE)])

\* The loop over response_data["results"] of send_batch_request.
\* st carries job_ids, latencies, successful_requests, the growing
\* batch_results, the server's ID counter and whether result["job_id"] raised.
RECURSIVE ProcessResults(_, _, _)
ProcessResults(rs, lat, st) ==
  IF rs = <<>> THEN st
  ELSE IF Head(rs) = "success"
    THEN ProcessResults(Tail(rs), lat,
           [st EXCEPT !.job_ids = Append(@, st.next_id),
                      !.latencies = Append(@, lat),
                      !.successful = @ + 1,
                      !.batch_results = Append(@, TRUE),
                      !.added = @ + 1,
                      !.next_id = @ + 1])
  ELSE IF Head(rs) = "success_no_id"
    THEN [st EXCEPT !.raised = TRUE]
  ELSE ProcessResults(Tail(rs), lat,
           [st EXCEPT !.batch_results = Append(@, FALSE)])

CountSuccessMarked(rs) ==
  Cardinality({k \in 1..Len(rs) : rs[k] \in {"success", "success_no_id"}})

InFlight == {t \in DOMAIN batch : batch[t].pc = "awaiting"}

\* LoadTester.run up to the creation of the task list.
LoadRunStart ==
  /\ rn_pc \in {"standalone", "load"}
  /\ lt_pc = "init"
  /\ config.has_batch_size
  /\ lt_pc' = "running"
  /\ lt_start_time' = now
  /\ job_ids' = <<>>
  /\ latencies' = <<>>
  /\ successful_requests' = 0
  /\ tasks' = Range(0, config.requests, config.batch_size)
  /\ batch' = [t \in 1..Len(tasks') |-> NewBatch]
  /\ chunk_i' = 0
  /\ UNCHANGED <<sideVars, fnVars, interrupted_in, report_file, entry, config, now, lt_end_time, last, outcome_total,
                 marked_processed, failed_batch_ids, next_job_id, lt_results,
                 progress, job_ids_file, load_results_file, rnVars, vfVars>>

\* config.batch_size is not an attribute: the start message raises.
LoadRunRaise ==
  /\ rn_pc \in {"standalone", "load"}
  /\ lt_pc = "init"
  /\ ~config.has_batch_size
  /\ lt_pc' = "raised"
  /\ lt_start_time' = now
  /\ job_ids' = <<>>
  /\ latencies' = <<>>
  /\ successful_requests' = 0
  /\ UNCHANGED <<sideVars, fnVars, interrupted_in, report_file, entry, config, now, lt_end_time, tasks, chunk_i, batch, last,
                 outcome_total, marked_processed, failed_batch_ids, next_job_id, lt_results,
                 progress, job_ids_file, load_results_file, rnVars, vfVars>>

\* for i in range(0, len(tasks), concurrency): await gather(*tasks[i:i+concurrency])
GatherChunk ==
  /\ lt_pc = "running"
  /\ \A t \in DOMAIN batch : batch[t].pc \in {"created", "done"}
  /\ chunk_i < Len(tasks)
  /\ batch' = [t \in DOMAIN batch |->
                 IF t > chunk_i /\ t <= chunk_i + Concurrency
                 THEN [batch[t] EXCEPT !.pc = "scheduled"]
                 ELSE batch[t]]
  /\ chunk_i' = chunk_i + Concurrency
  /\ UNCHANGED <<sideVars, fnVars, interrupted_in, report_file, entry, config, now, lt_pc, lt_start_time, lt_end_time, job_ids,
                 latencies, successful_requests, tasks, last, outcome_total,
                 marked_processed, failed_batch_ids, next_job_id, lt_results,
                 progress, job_ids_file, load_results_file, rnVars, vfVars>>

\* send_batch_request up to its suspension in session.post; the connector
\* hands out at most `limit` connections.
SendBatch(t) ==
  /\ lt_pc = "running"
  /\ batch[t].pc = "scheduled"
  /\ Cardinality(InFlight) < Concurrency
  /\ batch' = [batch EXCEPT
       ![t].pc = "awaiting",
       ![t].start_time = now,
       ![t].posts = @ + 1,
       ![t].payload = [i \in 1..config.batch_size |-> tasks[t] + i - 1]]
  /\ UNCHANGED <<sideVars, fnVars, interrupted_in, report_file, entry, config, now, lt_pc, lt_start_time, lt_end_time, job_ids,
                 latencies, successful_requests, tasks, chunk_i, last,
                 outcome_total, marked_processed, failed_batch_ids, next_job_id, lt_results,
                 progress, job_ids_file, load_results_file, rnVars, vfVars>>

\* if len(self.job_ids) % 100 == 0: the progress report is due.
ProgressDue(n) == n % ProgressEvery = 0

\* The response (or the failure) of the POST arrives and is handled; there
\* is no suspension point between reading the body and the return.  After
\* the results loop of a 200 response the progress report is built when it
\* is due; its rate divides by the time since the start of the run, and a
\* ZeroDivisionError there is caught like any other exception of the batch
\* (the job IDs already recorded stay recorded).
HandleResponse(t, resp, d) ==
  /\ lt_pc = "running"
  /\ batch[t].pc = "awaiting"
  /\ now' = now + d
  /\ LET batch_latency == now' - batch[t].start_time
         st0 == [job_ids |-> job_ids, latencies |-> latencies,
                 successful |-> successful_requests, batch_results |-> <<>>,
                 added |-> 0, next_id |-> next_job_id, raised |-> FALSE]
         ok == resp.kind = "http" /\ resp.status = 200
         st == IF ok
               THEN ProcessResults(resp.results,
                                   <<batch_latency, config.batch_size>>, st0)
               ELSE st0
         report == ok /\ ~st.raised /\ ProgressDue(Len(st.job_ids))
         rate_raised == report /\ now' - lt_start_time = 0
         failed == ~ok \/ st.raised \/ rate_raised
         ret == IF failed THEN RepeatFalse(config.batch_size)
                ELSE st.batch_results
     IN /\ job_ids' = st.job_ids
        /\ latencies' = st.latencies
        /\ successful_requests' = st.successful
        /\ next_job_id' = st.next_id
        /\ last' = [outcome |-> IF ~failed THEN "processed"
                                ELSE IF resp.kind = "http" /\ ~ok THEN "error_status"
                                ELSE "exception",
                    ret |-> ret,
                    added |-> st.added]
        /\ outcome_total' = outcome_total + Len(ret)
        /\ marked_processed' = marked_processed +
              (IF failed THEN 0 ELSE CountSuccessMarked(resp.results))
        /\ failed_batch_ids' = failed_batch_ids \cup
              (IF failed THEN next_job_id..(st.next_id - 1) ELSE {})
        /\ progress' = IF report /\ ~rate_raised
                       THEN Append(progress, Len(st.job_ids))
                       ELSE progress
  /\ batch' = [batch EXCEPT ![t].pc = "done"]
  /\ UNCHANGED <<sideVars, fnVars, interrupted_in, report_file, entry, config, lt_pc, lt_start_time, lt_end_time, tasks,
                 chunk_i, lt_results,
                 job_ids_file, load_results_file, rnVars, vfVars>>

\* The files written under config.test_dir.
JobIdsTxt == "job_ids.txt"
LoadResultsJson == "load_test_results.json"
VerificationJson == "verification_results.json"
ReportJson == "performance_test_results.json"

\* The job IDs written without the one recorded last.
PersistedAllButLast == IF job_ids = <<>> THEN <<>> ELSE SubSeq(job_ids, 1, Len(job_ids) - 1)

\* _save_results: for job_id in self.job_ids: f.write(f"{job_id}\n")
PersistedJobIds == job_ids

\* After the last gather: statistics, results dict, _save_results (the
\* job-ID list, then the metrics document), _log_results, return.
LoadRunFinish ==
  /\ lt_pc = "running"
  /\ \A t \in DOMAIN batch : batch[t].pc = "done"
  /\ chunk_i >= Len(tasks)
  /\ lt_end_time' = now
  /\ lt_results' = [total_time |-> now - lt_start_time,
                    successful_requests |-> successful_requests,
                    total_requests |-> config.requests,
                    job_ids |-> job_ids]
  /\ job_ids_file' = PersistedJobIds
  /\ load_results_file' = lt_results'
  /\ written' = written \o <<JobIdsTxt, LoadResultsJson>>
  /\ lt_pc' = "returned"
  /\ UNCHANGED <<srVars, saVars, rtVars, proc, fnVars, interrupted_in, report_file, entry, config, now, lt_start_time, job_ids, latencies,
                 successful_requests, tasks, chunk_i, batch, last, outcome_total,
                 marked_processed, failed_batch_ids, next_job_id, progress,
                 rnVars, vfVars>>

(* -------------------------- TestRunner -------------------------------- *)
\* The queue depths a poll can report.
Depths == {0, 3, 5}

\* What an SQS call can observe: a depth, or a transport error.
SqsError == -1
PollAnswers == Depths \cup {SqsError}

\* Sampling in which one entry may be drawn more than once.
SampleWithReplacement(ids, max_sample) ==
  IF ids = <<>> THEN {<<>>}
  ELSE IF Len(ids) <= max_sample THEN {ids}
  ELSE {[k \in 1..max_sample |-> ids[pos[k]]] :
          pos \in [1..max_sample -> 1..Len(ids)]}

\* _sample_job_ids: the lists it can return (random.sample draws
\* max_sample entries at pairwise different positions, in any order).
SampleJobIds(ids, max_sample) ==
  IF ids = <<>> THEN {<<>>}
  ELSE IF Len(ids) <= max_sample THEN {ids}
  ELSE {[k \in 1..max_sample |-> ids[pos[k]]] :
          pos \in {f \in [1..max_sample -> 1..Len(ids)] :
                     \A a, b \in 1..max_sample : a # b => f[a] # f[b]}}

\* The exception swallowed: the runner stays where it is.
RunnerSwallowError(t, reason) ==
  UNCHANGED <<rn_results, rn_end_time, rn_pc>>

\* except Exception in TestRunner.run: the error report with str(e), and
\* finally.
RunnerReturnError(t, reason) ==
  /\ rn_results' = [status |-> "error", error |-> reason]
  /\ rn_end_time' = t
  /\ rn_pc' = "returned"

\* An exception that is not an Exception (KeyboardInterrupt) leaves run
\* through finally only: run raises and returns nothing.
RunnerPropagate(t) ==
  /\ rn_end_time' = t
  /\ rn_pc' = "raised"
  /\ UNCHANGED rn_results

\* TestRunner.run up to the call of load_tester.run.
RunnerStart ==
  /\ rn_pc = "init"
  /\ rn_start_time' = now
  /\ rn_pc' = "load"
  /\ UNCHANGED <<sideVars, fnVars, interrupted_in, report_file, entry, config, now, ltVars, job_ids_file, load_results_file, rn_end_time,
                 sqs_calls, sqs_errors, readings, last_poll_time,
                 queue_empty_time, processing_time, rn_results, vfVars>>

\* load_tester.run raised: caught by TestRunner.run.
RunnerLoadRaised ==
  /\ rn_pc = "load"
  /\ lt_pc = "raised"
  /\ RunnerReturnError(now, "AttributeError")
  /\ UNCHANGED <<sideVars, fnVars, interrupted_in, report_file, entry, config, now, ltVars, job_ids_file, load_results_file, rn_start_time,
                 sqs_calls, sqs_errors, readings, last_poll_time,
                 queue_empty_time, processing_time, vfVars>>

\* The drain wait entered as soon as dispatch has begun.
LoadStarted == lt_pc \in {"running", "returned"}

\* load_test_results = await self.load_tester.run(): run has returned.
LoadReturned == lt_pc = "returned"

\* load_tester.run returned; _wait_for_empty_queue looks the queue up.
QueueLookup(ok, d) ==
  /\ rn_pc = "load"
  /\ LoadReturned
  /\ now' = now + d
  /\ sqs_calls' = sqs_calls + 1
  /\ sqs_errors' = sqs_errors + (IF ok THEN 0 ELSE 1)
  /\ IF ok
     THEN /\ rn_pc' = "drain_poll"
          /\ UNCHANGED <<rn_results, rn_end_time>>
     ELSE RunnerReturnError(now', "SqsError")
  /\ UNCHANGED <<sideVars, fnVars, interrupted_in, report_file, entry, config, ltVars, job_ids_file, load_results_file, rn_start_time, readings,
                 last_poll_time, queue_empty_time, processing_time, vfVars>>

\* The queue taken for empty below a threshold.
IsLowReading(r) == r <= 3

\* if msg_count == 0
IsEmptyReading(r) == r = 0

\* The wait given up once two nonzero depths have been read.
AfterDrainSleepGiveUp ==
  IF Len(readings) >= 1 THEN "sample" ELSE "drain_poll"

\* Where the loop goes after `await asyncio.sleep(0.2)`: back to the head of
\* `while True`, whose test never fails.
AfterDrainSleep == "drain_poll"

\* One round of the polling loop: get_queue_attributes, then return on 0,
\* sleep 0.2 s on another depth, re-raise on an error.
QueuePoll(r, d) ==
  /\ rn_pc = "drain_poll"
  /\ sqs_calls < MaxPolls + 1
  /\ sqs_calls' = sqs_calls + 1
  /\ last_poll_time' = now + d
  /\ IF r = SqsError
     THEN /\ now' = now + d
          /\ sqs_errors' = sqs_errors + 1
          /\ RunnerReturnError(now', "SqsError")
          /\ UNCHANGED <<readings, queue_empty_time, processing_time>>
     ELSE IF IsEmptyReading(r)
     THEN /\ now' = now + d
          /\ readings' = Append(readings, r)
          /\ queue_empty_time' = now'
          /\ processing_time' = now' - rn_start_time
          /\ rn_pc' = "sample"
          /\ UNCHANGED <<sqs_errors, rn_results, rn_end_time>>
     ELSE /\ now' = now + d + DrainSleepTicks
          /\ readings' = Append(readings, r)
          /\ rn_pc' = AfterDrainSleep
          /\ UNCHANGED <<sqs_errors, rn_results, rn_end_time,
                         queue_empty_time, processing_time>>
  /\ UNCHANGED <<sideVars, fnVars, interrupted_in, report_file, entry, config, ltVars, job_ids_file, load_results_file, rn_start_time, vfVars>>

\* KeyboardInterrupt while the polling loop of _wait_for_empty_queue runs
\* or sleeps: `except Exception` (in the loop and in run) does not catch it.
DrainInterrupt ==
  /\ rn_pc = "drain_poll"
  /\ interrupted_in = "none"
  /\ interrupted_in' = "drain"
  /\ RunnerPropagate(now)
  /\ UNCHANGED <<sideVars, fnVars, report_file, entry, config, now, ltVars, job_ids_file, load_results_file,
                 rn_start_time, sqs_calls, sqs_errors, readings, last_poll_time,
                 queue_empty_time, processing_time, vfVars>>

\* Phase 2 of TestRunner.run: sample the job IDs, build the Verifier.
SampleAndConstruct ==
  /\ rn_pc = "sample"
  /\ \E smp \in SampleJobIds(lt_results.job_ids, MaxSample) : vf_job_ids' = smp
  /\ vf_pc' = "init"
  /\ completed_jobs' = {}
  /\ rn_pc' = "verify"
  /\ UNCHANGED <<sideVars, fnVars, interrupted_in, report_file, entry, config, now, ltVars,
                 job_ids_file, load_results_file, rn_start_time,
                 rn_end_time, sqs_calls, sqs_errors, readings, last_poll_time,
                 queue_empty_time, processing_time, rn_results, total_jobs,
                 vf_start_time, vf_end_time, jobs_to_check, round_test_time,
                 round_io, head_calls, sleeps, vf_results, verify_calls,
                 prev_call, prev_failed, round_failed, last_head>>

\* The exception of verify passed on to the caller of run.
RunnerVerifyPropagates ==
  /\ rn_pc = "verify"
  /\ vf_pc = "raised"
  /\ RunnerPropagate(now)
  /\ UNCHANGED <<sideVars, fnVars, interrupted_in, report_file, entry, config, now, ltVars,
                 job_ids_file, load_results_file, rn_start_time, sqs_calls, sqs_errors, readings,
                 last_poll_time, queue_empty_time, processing_time, vfVars>>

\* verify raised (it did not return a dict): caught by TestRunner.run.
RunnerVerifyRaised ==
  /\ rn_pc = "verify"
  /\ vf_pc = "raised"
  /\ RunnerReturnError(now, "ZeroDivisionError")
  /\ UNCHANGED <<sideVars, fnVars, interrupted_in, report_file, entry, config, now, ltVars,
                 job_ids_file, load_results_file, rn_start_time, sqs_calls, sqs_errors, readings,
                 last_poll_time, queue_empty_time, processing_time, vfVars>>

\* The time between the run's start and the present moment.
ElapsedSinceStart == now - rn_start_time

\* The processing_time argument of _compile_results.
ReportedProcessingTime == processing_time

\* 1000000 * processing_time, the division by the successful count left out.
ExtrapolatedMillionTimes(s, d) ==
  [num |-> 1000000 * d, den |-> TicksPerSecond]

\* extrapolated_million_seconds: 1000000 / (successful / processing_time),
\* as a fraction of seconds, for s successful requests and d ticks.
ExtrapolatedMillion(s, d) ==
  LET throughput == [num |-> s * TicksPerSecond, den |-> d]
  IN [num |-> 1000000 * throughput.den, den |-> throughput.num]

\* goal_achieved: extrapolated_million_minutes <= 10, with the processing
\* time d in ticks and s successful requests.
GoalAchieved(s, d) ==
  LET e == ExtrapolatedMillion(s, d) IN e.num <= 10 * 60 * e.den

\* verify returned: _compile_results, _save_combined_results, _log_summary.
\* A verify result without elapsed_seconds or throughput_per_second raises
\* KeyError while the combined dict is built; after that a division by a
\* zero throughput raises.  Both are caught by run, before the report is
\* saved.
CompileResults ==
  /\ rn_pc = "verify"
  /\ vf_pc = "returned"
  /\ LET s == lt_results.successful_requests
         d == ReportedProcessingTime
     IN IF vf_results.status # "ok"
        THEN /\ RunnerReturnError(now, "KeyError")
             /\ UNCHANGED <<report_file, written>>
        ELSE IF d > 0 /\ s = 0
        THEN /\ RunnerReturnError(now, "ZeroDivisionError")
             /\ UNCHANGED <<report_file, written>>
        ELSE /\ rn_end_time' = now
             /\ rn_pc' = "returned"
             /\ rn_results' =
                  [status |-> "ok",
                   total_requests |-> lt_results.total_requests,
                   successful_requests |-> s,
                   total_processing_time |-> d,
                   total_jobs |-> vf_results.total_jobs,
                   completed_jobs |-> vf_results.completed_jobs,
                   has_performance |-> d > 0,
                   extrapolated_million_seconds |->
                     IF d > 0 THEN ExtrapolatedMillion(s, d)
                     ELSE [num |-> 0, den |-> 1],
                   goal_achieved |-> d > 0 /\ GoalAchieved(s, d)]
             /\ report_file' = rn_results'
             /\ written' = Append(written, ReportJson)
  /\ UNCHANGED <<srVars, saVars, rtVars, proc, fnVars, interrupted_in, entry, config, now, ltVars,
                 job_ids_file, load_results_file, rn_start_time,
                 sqs_calls, sqs_errors, readings, last_poll_time,
                 queue_empty_time, processing_time, vfVars>>

(* ------------------------------ main ---------------------------------- *)
\* The exit code with every run that returned without an error taken for
\* one that met the goal.
ExitCodeIgnoringGoal(results) ==
  IF results.status = "error" THEN 1 ELSE 0

\* The value main returns for the dict run returned: 1 for status=error,
\* 2 when the dict has a performance section whose goal_achieved is false,
\* 0 otherwise.
ExitCode(results) ==
  IF results.status = "error" THEN 1
  ELSE IF results.has_performance /\ ~results.goal_achieved THEN 2
  ELSE 0

\* main failing a run whose verification left jobs unconfirmed.
MainReturnIncompleteFails ==
  /\ proc.pc = "running"
  /\ rn_pc = "returned"
  /\ proc' = [pc |-> "exited",
              code |-> IF /\ rn_results.status = "ok"
                         /\ rn_results.completed_jobs < rn_results.total_jobs
                      THEN 1 ELSE ExitCode(rn_results)]
  /\ UNCHANGED <<srVars, saVars, rtVars, written, fnVars, interrupted_in, report_file,
                 entry, config, now, ltVars, job_ids_file, load_results_file,
                 rnVars, vfVars>>

\* results = await runner.run() returned; main returns the exit code and
\* sys.exit ends the process with it.
MainReturn ==
  /\ proc.pc = "running"
  /\ rn_pc = "returned"
  /\ proc' = [pc |-> "exited", code |-> ExitCode(rn_results)]
  /\ UNCHANGED <<srVars, saVars, rtVars, written, fnVars, interrupted_in, report_file,
                 entry, config, now, ltVars, job_ids_file, load_results_file,
                 rnVars, vfVars>>

\* run raised KeyboardInterrupt: neither main catches it (pdf_perf_test.main
\* catches Exception only), so the process ends with the traceback and not
\* through sys.exit.
MainInterrupted ==
  /\ proc.pc = "running"
  /\ rn_pc = "raised"
  /\ proc' = [pc |-> "raised"]
  /\ UNCHANGED <<srVars, saVars, rtVars, written, fnVars, interrupted_in, report_file,
                 entry, config, now, ltVars, job_ids_file, load_results_file,
                 rnVars, vfVars>>

(* --------------------------- Verifier --------------------------------- *)
HeadAnswers == {"found", "not_found", "error"}

\* Only a missing object leaves the job unconfirmed.
ConfirmsUnlessMissing(r) == r # "not_found"

\* head_object returned without raising: the job is confirmed.
Confirms(r) == r = "found"

\* The loop test with the timeout instant itself still inside.
TimeRemainsInclusive(t) == t - vf_start_time <= config.timeout * TicksPerSecond

\* while time.time() - self.start_time < self.config.timeout
TimeRemains(t) == t - vf_start_time < config.timeout * TicksPerSecond

\* The failed jobs without the confirmed ones taken out.
FailedJobsAll(ids, done) == {ids[k] : k \in 1..Len(ids)}

\* set(self.job_ids) - self.completed_jobs
FailedJobs(ids, done) == {ids[k] : k \in 1..Len(ids)} \ done

\* Every job ID put on the list again, confirmed or not.
UnconfirmedOrNot(ids, done) == ids

\* [job_id for job_id in self.job_ids if job_id not in self.completed_jobs]
Unconfirmed(ids, done) ==
  LET keep(j) == j \notin done IN SelectSeq(ids, keep)

SeqToSet(q) == {q[k] : k \in 1..Len(q)}

\* No verify call has returned before.
NoCall == [results |-> [status |-> "none"], head_calls |-> 0, sleeps |-> 0]

\* verify up to the loop: load the job IDs from the file when none were
\* given, take the start time, empty the confirmed set.
VerifyStart ==
  /\ rn_pc \in {"standalone", "verify"}
  /\ vf_pc = "init"
  /\ vf_job_ids' = IF vf_job_ids = <<>> THEN job_ids_file ELSE vf_job_ids
  /\ total_jobs' = Len(vf_job_ids')
  /\ vf_start_time' = now
  /\ completed_jobs' = {}
  /\ vf_pc' = "loop"
  /\ verify_calls' = verify_calls + 1
  /\ prev_failed' = {}
  /\ round_failed' = {}
  /\ UNCHANGED <<sideVars, fnVars, interrupted_in, report_file, entry, config, now, ltVars,
                 job_ids_file, load_results_file, rnVars, vf_end_time,
                 jobs_to_check, round_test_time, round_io, head_calls, sleeps,
                 vf_results, prev_call, last_head>>

\* The loop test passes and some job is unconfirmed: a round begins.
BeginRound ==
  /\ vf_pc = "loop"
  /\ TimeRemains(now)
  /\ Unconfirmed(vf_job_ids, completed_jobs) # <<>>
  /\ jobs_to_check' = Unconfirmed(vf_job_ids, completed_jobs)
  /\ round_test_time' = now
  /\ round_io' = 0
  /\ vf_pc' = "checking"
  /\ prev_failed' = round_failed
  /\ round_failed' = {}
  /\ UNCHANGED <<sideVars, fnVars, interrupted_in, report_file, entry, config, now, ltVars,
                 job_ids_file, load_results_file, rnVars, vf_job_ids,
                 total_jobs, completed_jobs, vf_start_time, vf_end_time,
                 head_calls, sleeps, vf_results, verify_calls, prev_call,
                 last_head>>

\* One head_object call of the round; any exception leaves the job unconfirmed.
CheckJob(r, d) ==
  /\ vf_pc = "checking"
  /\ jobs_to_check # <<>>
  /\ now' = now + d
  /\ round_io' = round_io + d
  /\ head_calls' = head_calls + 1
  /\ last_head' = r
  /\ IF Confirms(r)
     THEN /\ completed_jobs' = completed_jobs \cup {Head(jobs_to_check)}
          /\ UNCHANGED round_failed
     ELSE /\ round_failed' = round_failed \cup {Head(jobs_to_check)}
          /\ UNCHANGED completed_jobs
  /\ jobs_to_check' = Tail(jobs_to_check)
  /\ UNCHANGED <<sideVars, fnVars, interrupted_in, report_file, entry, config, ltVars,
                 job_ids_file, load_results_file, rnVars, vf_pc, vf_job_ids,
                 total_jobs, vf_start_time, vf_end_time, round_test_time,
                 sleeps, vf_results, verify_calls, prev_call, prev_failed>>

\* The interval slept after every round.
SleepAlways == TRUE

\* if len(self.completed_jobs) < total_jobs: time.sleep(self.config.interval)
SleepDue == Cardinality(completed_jobs) < total_jobs

\* End of a round: progress output, then the interval sleep unless every
\* job is confirmed.
EndRound ==
  /\ vf_pc = "checking"
  /\ jobs_to_check = <<>>
  /\ IF SleepDue
     THEN /\ now' = now + config.interval * TicksPerSecond
          /\ sleeps' = sleeps + 1
     ELSE UNCHANGED <<now, sleeps>>
  /\ vf_pc' = "loop"
  /\ UNCHANGED <<sideVars, fnVars, interrupted_in, report_file, entry, config, ltVars,
                 job_ids_file, load_results_file, rnVars, vf_job_ids,
                 total_jobs, completed_jobs, vf_start_time, vf_end_time,
                 jobs_to_check, round_test_time, round_io, head_calls,
                 vf_results, verify_calls, prev_call, prev_failed,
                 round_failed, last_head>>

\* The loop ends (time is up, or nothing is left to check): final report,
\* _save_results, _log_results.  _log_results divides by total_jobs; the
\* ZeroDivisionError is caught by verify, which returns the error dict
\* (the verification results are on disk by then).
VerifyFinish ==
  /\ vf_pc = "loop"
  /\ ~TimeRemains(now) \/ Unconfirmed(vf_job_ids, completed_jobs) = <<>>
  /\ vf_end_time' = now
  /\ vf_pc' = "returned"
  /\ written' = Append(written, VerificationJson)
  /\ LET failed_jobs == FailedJobs(vf_job_ids, completed_jobs)
         has_failed == Cardinality(completed_jobs) < total_jobs
     IN vf_results' =
          IF total_jobs = 0
          THEN [status |-> "error", total_jobs |-> total_jobs,
                completed_jobs |-> Cardinality(completed_jobs),
                has_elapsed |-> FALSE, elapsed |-> 0,
                has_failed |-> FALSE, failed_jobs |-> {}, failed_count |-> 0]
          ELSE [status |-> "ok", total_jobs |-> total_jobs,
                completed_jobs |-> Cardinality(completed_jobs),
                has_elapsed |-> TRUE, elapsed |-> now - vf_start_time,
                has_failed |-> has_failed,
                failed_jobs |-> IF has_failed THEN failed_jobs ELSE {},
                failed_count |-> IF has_failed THEN Cardinality(failed_jobs)
                                 ELSE 0]
  /\ UNCHANGED <<srVars, saVars, rtVars, proc, fnVars, interrupted_in, report_file, entry, config, now, ltVars,
                 job_ids_file, load_results_file, rnVars, vf_job_ids,
                 total_jobs, completed_jobs, vf_start_time, jobs_to_check,
                 round_test_time, round_io, head_calls, sleeps, verify_calls,
                 prev_call, prev_failed, round_failed, last_head>>

\* KeyboardInterrupt inside the while loop: the handler builds the
\* "interrupted" dict.  Its status line divides by total_jobs; with no job
\* the ZeroDivisionError leaves verify (a sibling except clause does not
\* catch what a handler raises).
VerifyInterrupt ==
  /\ vf_pc \in {"loop", "checking"}
  /\ interrupted_in = "none"
  /\ interrupted_in' = "verify"
  /\ IF total_jobs = 0
     THEN /\ vf_pc' = "raised"
          /\ UNCHANGED vf_results
     ELSE /\ vf_pc' = "returned"
          /\ vf_results' =
               [status |-> "interrupted", total_jobs |-> total_jobs,
                completed_jobs |-> Cardinality(completed_jobs),
                has_elapsed |-> TRUE, elapsed |-> now - vf_start_time,
                has_failed |-> FALSE, failed_jobs |-> {}, failed_count |-> 0]
  /\ UNCHANGED <<sideVars, fnVars, report_file, entry, config, now, ltVars,
                 job_ids_file, load_results_file, rnVars, vf_job_ids,
                 total_jobs, completed_jobs, vf_start_time, vf_end_time,
                 jobs_to_check, round_test_time, round_io, head_calls, sleeps,
                 verify_calls, prev_call, prev_failed, round_failed, last_head>>

\* The calls of verify after which the caller calls it again.
RepeatedCalls == {1}

\* The caller calls verify once more on the same Verifier object.
VerifyAgain ==
  /\ rn_pc = "standalone"
  /\ vf_pc = "returned"
  /\ verify_calls \in RepeatedCalls
  /\ prev_call' = [results |-> vf_results, head_calls |-> head_calls,
                   sleeps |-> sleeps]
  /\ vf_pc' = "init"
  /\ UNCHANGED <<sideVars, fnVars, interrupted_in, report_file, entry, config, now, ltVars,
                 job_ids_file, load_results_file, rnVars, vf_job_ids,
                 total_jobs, completed_jobs, vf_start_time, vf_end_time,
                 jobs_to_check, round_test_time, round_io, head_calls, sleeps,
                 vf_results, verify_calls, prev_failed, round_failed, last_head>>

(* ------------------------ job_ids.txt as text ------------------------- *)
\* The characters str.strip() removes (of those the model has).
Whitespace == {" ", "\n"}

\* The job IDs a dispatcher can have recorded from result["job_id"], as
\* strings: identifiers, and strings that are empty or carry whitespace.
RecordedIds ==
  {<<"a">>, <<"a", "b">>, <<"a", " ", "b">>,
   <<>>, <<" ", "a">>, <<"a", " ">>, <<"a", "\n", "b">>, <<"\n">>}

RecordedIdLists == UNION {[1..n -> RecordedIds] : n \in 0..MaxJobs}

\* for job_id in self.job_ids: f.write(f"{job_id}\n")
RECURSIVE WriteJobIds(_)
WriteJobIds(ids) ==
  IF ids = <<>> THEN <<>>
  ELSE Head(ids) \o <<"\n">> \o WriteJobIds(Tail(ids))

\* The end of the first line of a text: its first line break, or its end.
LineEnd(text) ==
  LET breaks == {k \in 1..Len(text) : text[k] = "\n"}
  IN IF breaks = {} THEN Len(text)
     ELSE CHOOSE k \in breaks : \A m \in breaks : k <= m

\* for line in f: the lines of the file, each with its line break.
RECURSIVE FileLines(_)
FileLines(text) ==
  IF text = <<>> THEN <<>>
  ELSE LET k == LineEnd(text)
       IN <<SubSeq(text, 1, k)>> \o FileLines(SubSeq(text, k + 1, Len(text)))

\* The line as read, with nothing removed.
KeepLine(line) == line

\* line.strip()
RECURSIVE Strip(_)
Strip(line) ==
  IF line = <<>> THEN <<>>
  ELSE IF Head(line) \in Whitespace THEN Strip(Tail(line))
  ELSE IF line[Len(line)] \in Whitespace
    THEN Strip(SubSeq(line, 1, Len(line) - 1))
  ELSE line

\* [line.strip() for line in f if line.strip()]
LoadJobIds(text) ==
  LET lines == FileLines(text)
      stripped == [k \in 1..Len(lines) |-> Strip(lines[k])]
      nonempty(l) == l # <<>>
  IN SelectSeq(stripped, nonempty)

\* LoadTester._save_results writes job_ids.txt.
SaveJobIds ==
  /\ rt_pc = "recorded"
  /\ rt_file' = WriteJobIds(rt_job_ids)
  /\ rt_pc' = "saved"
  /\ UNCHANGED <<rt_job_ids, rt_loaded, srVars, saVars, proc, written, fnVars,
                 interrupted_in, report_file, entry, config, now, ltVars,
                 job_ids_file, load_results_file, rnVars, vfVars>>

\* Verifier.load_job_ids reads it back.
LoadJobIdsCall ==
  /\ rt_pc = "saved"
  /\ rt_loaded' = LoadJobIds(rt_file)
  /\ rt_pc' = "loaded"
  /\ UNCHANGED <<rt_job_ids, rt_file, srVars, saVars, proc, written, fnVars,
                 interrupted_in, report_file, entry, config, now, ltVars,
                 job_ids_file, load_results_file, rnVars, vfVars>>

(* --------------------------- send_request ----------------------------- *)
\* The bodies a response can carry: a JSON object with a job_id, without
\* one, with an empty or null one; text that is not JSON; JSON that is not
\* an object.
Bodies == {"object_with_id", "object_without_id", "object_empty_id",
           "not_json", "not_object"}

\* What one POST can meet: an exception while sending, a 503, or a response
\* with another status, a content type and a body.
SendOutcomes ==
  {[kind |-> "send_error", status |-> 0, ctype |-> "none", body |-> "none"],
   [kind |-> "response", status |-> 503, ctype |-> "text", body |-> "not_json"]}
  \cup {[kind |-> "response", status |-> st, ctype |-> c, body |-> b] :
          st \in {200, 500}, c \in {"json", "text"}, b \in Bodies}

\* Reading the body raises inside the try block: response.json() on text
\* that is not JSON, or .get on a parsed value that is not an object (the
\* inner except catches json.JSONDecodeError only).
BodyRaises(o) ==
  /\ o.kind = "response"
  /\ o.status # 503
  /\ \/ o.ctype = "json" /\ o.body \in {"not_json", "not_object"}
     \/ o.ctype = "text" /\ o.body = "not_object"

\* The branch one POST takes: the 503 branch, the except branch, or the
\* break after the response was handled.
OutcomeClass(o) ==
  IF o.kind = "send_error" THEN "send_error"
  ELSE IF o.status = 503 THEN "status_503"
  ELSE IF BodyRaises(o) THEN "body_error"
  ELSE "handled"

\* job_id after a handled response.
JobIdOf(o) ==
  IF o.body = "object_with_id" THEN "job_id"
  ELSE IF o.body = "object_without_id" THEN "no-id"
  ELSE IF o.body = "object_empty_id" THEN "unknown-status"
  ELSE "text-response-status"

\* job_id after the last attempt failed.
JobIdOfFailure(o) ==
  IF OutcomeClass(o) = "status_503" THEN "failed-503-after-retries"
  ELSE "error-message"

\* The budget test passing once more when the budget is used up.
RetryBudgetLeftInclusive(r, m) == r <= m

\* if retries < max_retries
RetryBudgetLeft(r, m) == r < m

\* The default max_retries=3, and smaller budgets.
RetryBudgets == {0, 1, 3}

\* The default retry_delay=1, and a longer one (seconds).
RetryDelays == {1, 2}

\* send_request is called: start_time, job_id = "unknown", retries = 0.
SendRequestCall ==
  /\ sr_pc = "idle"
  /\ sr_pc' = "loop"
  /\ sr_start_time' = now
  /\ sr_job_id' = "unknown"
  /\ retries' = 0
  /\ UNCHANGED <<sr_max_retries, sr_retry_delay, stats, attempts, sr_slept,
                 observed, saVars, rtVars, proc, written, fnVars, interrupted_in,
                 report_file, entry, config, now, ltVars, job_ids_file,
                 load_results_file, rnVars, vfVars>>

\* One iteration of `while retries <= max_retries`: the POST, then either
\* the retry (count, sleep retry_delay, continue) or the break.
SendAttempt(o, d) ==
  /\ sr_pc = "loop"
  /\ retries <= sr_max_retries
  /\ attempts' = attempts + 1
  /\ observed' = Append(observed, OutcomeClass(o))
  /\ IF OutcomeClass(o) = "handled"
     THEN /\ sr_job_id' = JobIdOf(o)
          /\ sr_pc' = "done"
          /\ now' = now + d
          /\ UNCHANGED <<retries, sr_slept>>
     ELSE IF RetryBudgetLeft(retries, sr_max_retries)
     THEN /\ retries' = retries + 1
          /\ sr_slept' = Append(sr_slept, sr_retry_delay)
          /\ now' = now + d + sr_retry_delay * TicksPerSecond
          /\ UNCHANGED <<sr_job_id, sr_pc>>
     ELSE /\ sr_job_id' = JobIdOfFailure(o)
          /\ sr_pc' = "done"
          /\ now' = now + d
          /\ UNCHANGED <<retries, sr_slept>>
  /\ UNCHANGED <<sr_max_retries, sr_retry_delay, sr_start_time, stats, saVars, rtVars,
                 proc, written, fnVars, interrupted_in, report_file, entry,
                 config, ltVars, job_ids_file, load_results_file, rnVars,
                 vfVars>>

\* The loop was left (break, or its test failed): the duration is appended
\* to stats and returned with the job ID.
SendRequestReturn ==
  /\ \/ sr_pc = "done"
     \/ sr_pc = "loop" /\ ~(retries <= sr_max_retries)
  /\ stats' = Append(stats, now - sr_start_time)
  /\ sr_pc' = "returned"
  /\ UNCHANGED <<sr_max_retries, sr_retry_delay, sr_start_time, retries,
                 sr_job_id, attempts, sr_slept, observed, saVars, rtVars, proc, written,
                 fnVars, interrupted_in, report_file, entry, config, now,
                 ltVars, job_ids_file, load_results_file, rnVars, vfVars>>

(* ------------------------- send_all_requests -------------------------- *)
\* send_all_requests calls send_request without max_retries and retry_delay.
DefaultMaxRetries == 3
DefaultRetryDelay == 1

\* One POST outcome of each kind send_request tells apart.
SendAllOutcomes ==
  {[kind |-> "send_error", status |-> 0, ctype |-> "none", body |-> "none"],
   [kind |-> "response", status |-> 503, ctype |-> "text", body |-> "not_json"],
   [kind |-> "response", status |-> 200, ctype |-> "json", body |-> "not_json"],
   [kind |-> "response", status |-> 200, ctype |-> "json", body |-> "object_with_id"]}

\* A send_request coroutine handed to gather: start_time, job_id = "unknown",
\* retries = 0.
NewRequest == [pc |-> "created", retries |-> 0, wake_at |-> 0, job_id |-> "unknown"]

\* The tasks inside `async with semaphore`: at their POST or in their retry
\* sleep.
SlotHolders == {i \in DOMAIN sa_req : sa_req[i].pc \in {"posting", "sleeping"}}

\* A waiting task admitted only when no task holds a slot.
AllSlotsFree == sem_value = sa_limit

\* Semaphore.acquire goes ahead while the counter is positive.
SlotFree == sem_value > 0

\* What the actions of send_all_requests leave alone.
saOutside == <<sr_pc, sr_max_retries, sr_retry_delay, sr_start_time, retries,
               sr_job_id, attempts, sr_slept, observed, rtVars, proc, written,
               fnVars, interrupted_in, report_file, entry, config, ltVars,
               job_ids_file, load_results_file, rnVars, vfVars>>

\* send_all_requests up to the suspension of gather: the semaphore, the
\* start time, one task per request; every task runs up to its first
\* suspension, the first concurrency_limit of them into their POST, the
\* others into the semaphore's queue, in order.
SendAllCall ==
  /\ sa_pc = "idle"
  /\ sa_pc' = "gathering"
  /\ sa_start' = now
  /\ sa_req' = [i \in DOMAIN sa_req |->
                  [sa_req[i] EXCEPT !.pc = IF i <= sa_limit THEN "posting"
                                           ELSE "waiting"]]
  /\ sem_value' = IF Len(sa_req) <= sa_limit THEN sa_limit - Len(sa_req) ELSE 0
  /\ sem_waiters' = [k \in 1..(IF Len(sa_req) <= sa_limit THEN 0
                                ELSE Len(sa_req) - sa_limit) |-> sa_limit + k]
  /\ UNCHANGED <<saOutside, now, stats, sa_limit, sa_total>>

\* The POST of task i ends.  The task retries (counts, sleeps retry_delay
\* inside the `async with`) or leaves the loop and the `async with`, which
\* releases its slot, appends its duration to stats and returns.
SendAllAttempt(i, o, d) ==
  /\ sa_pc = "gathering"
  /\ sa_req[i].pc = "posting"
  /\ now' = now + d
  /\ IF OutcomeClass(o) # "handled" /\
        RetryBudgetLeft(sa_req[i].retries, DefaultMaxRetries)
     THEN /\ sa_req' = [sa_req EXCEPT
                ![i].pc = "sleeping",
                ![i].retries = @ + 1,
                ![i].wake_at = now' + DefaultRetryDelay * TicksPerSecond]
          /\ UNCHANGED <<sem_value, stats>>
     ELSE /\ sa_req' = [sa_req EXCEPT
                ![i].pc = "done",
                ![i].job_id = IF OutcomeClass(o) = "handled" THEN JobIdOf(o)
                              ELSE JobIdOfFailure(o)]
          /\ sem_value' = sem_value + 1
          /\ stats' = Append(stats, now' - sa_start)
  /\ UNCHANGED <<saOutside, sa_pc, sa_limit, sa_start, sem_waiters, sa_total>>

\* The retry sleep of task i ends (not before retry_delay has passed); the
\* task goes back to the head of the loop and POSTs again.
SendAllWake(i) ==
  /\ sa_pc = "gathering"
  /\ sa_req[i].pc = "sleeping"
  /\ now' = IF now < sa_req[i].wake_at THEN sa_req[i].wake_at ELSE now
  /\ sa_req' = [sa_req EXCEPT ![i].pc = "posting"]
  /\ UNCHANGED <<saOutside, stats, sa_pc, sa_limit, sa_start, sem_value,
                 sem_waiters, sa_total>>

\* The task at the head of the semaphore's queue is woken by a release and
\* takes the slot.
SemaphoreAdmit ==
  /\ sa_pc = "gathering"
  /\ sem_waiters # <<>>
  /\ SlotFree
  /\ sem_value' = sem_value - 1
  /\ sem_waiters' = Tail(sem_waiters)
  /\ sa_req' = [sa_req EXCEPT ![Head(sem_waiters)].pc = "posting"]
  /\ UNCHANGED <<saOutside, now, stats, sa_pc, sa_limit, sa_start, sa_total>>

\* gather returns when every task has returned: the total duration.
SendAllReturn ==
  /\ sa_pc = "gathering"
  /\ \A i \in DOMAIN sa_req : sa_req[i].pc = "done"
  /\ sa_pc' = "returned"
  /\ sa_total' = now - sa_start
  /\ UNCHANGED <<saOutside, now, stats, sa_limit, sa_start, sem_value,
                 sem_waiters, sa_req>>

(* ------------------------- specification ------------------------------ *)
\* LoadTester.__init__
InitLoadTester ==
  /\ lt_pc = "init"
  /\ lt_start_time = 0
  /\ lt_end_time = 0
  /\ job_ids = <<>>
  /\ latencies = <<>>
  /\ successful_requests = 0
  /\ tasks = <<>>
  /\ chunk_i = 0
  /\ batch = <<>>
  /\ last = NoBatch
  /\ outcome_total = 0
  /\ marked_processed = 0
  /\ failed_batch_ids = {}
  /\ next_job_id = 1
  /\ lt_results = [status |-> "none"]
  /\ progress = <<>>
  /\ job_ids_file = <<>>
  /\ load_results_file = [status |-> "none"]

\* TestRunner.__init__ (rn_pc = "standalone": no runner is involved)
InitRunner(pc) ==
  /\ rn_pc = pc
  /\ rn_start_time = 0
  /\ rn_end_time = 0
  /\ sqs_calls = 0
  /\ sqs_errors = 0
  /\ readings = <<>>
  /\ last_poll_time = 0
  /\ queue_empty_time = 0
  /\ processing_time = 0
  /\ rn_results = [status |-> "none"]
  /\ report_file = "none"
  /\ interrupted_in = "none"

\* Verifier.__init__
InitVerifier(ids) ==
  /\ vf_pc = "init"
  /\ vf_job_ids = ids
  /\ total_jobs = 0
  /\ completed_jobs = {}
  /\ vf_start_time = 0
  /\ vf_end_time = 0
  /\ jobs_to_check = <<>>
  /\ round_test_time = 0
  /\ round_io = 0
  /\ head_calls = 0
  /\ sleeps = 0
  /\ vf_results = [status |-> "none"]
  /\ verify_calls = 0
  /\ prev_call = NoCall
  /\ prev_failed = {}
  /\ round_failed = {}
  /\ last_head = "none"

\* No call of _sample_job_ids from outside run.
NoSampleCall ==
  /\ sample_ids = <<>>
  /\ sample_cap = MaxSample
  /\ sample_out = <<>>

\* No call of send_request.
NoSendCall ==
  /\ sr_pc = "idle"
  /\ sr_max_retries = 0
  /\ sr_retry_delay = 0
  /\ sr_start_time = 0
  /\ retries = 0
  /\ sr_job_id = "unknown"
  /\ stats = <<>>
  /\ attempts = 0
  /\ sr_slept = <<>>
  /\ observed = <<>>

\* No call of send_all_requests.
NoSendAll ==
  /\ sa_pc = "idle"
  /\ sa_limit = 0
  /\ sa_start = 0
  /\ sem_value = 0
  /\ sem_waiters = <<>>
  /\ sa_req = <<>>
  /\ sa_total = 0

\* job_ids.txt is neither written nor read as text.
NoRoundTrip ==
  /\ rt_pc = "idle"
  /\ rt_job_ids = <<>>
  /\ rt_file = <<>>
  /\ rt_loaded = <<>>

\* The process: p = "running" when main drives the run, "none" when the
\* component is used without main.
InitSide(p, w) ==
  /\ NoSendCall
  /\ NoSendAll
  /\ NoRoundTrip
  /\ proc = [pc |-> p]
  /\ written = w

\* A LoadTester run on its own.
InitLoad ==
  /\ entry \in EntryPoints
  /\ config \in LoadConfigs(entry)
  /\ now = 0
  /\ InitLoadTester
  /\ InitRunner("standalone")
  /\ InitVerifier(<<>>)
  /\ NoSampleCall
  /\ InitSide("none", <<>>)

NextLoad ==
  \/ LoadRunStart
  \/ LoadRunRaise
  \/ GatherChunk
  \/ \E t \in DOMAIN batch : SendBatch(t)
  \/ \E t \in DOMAIN batch : \E d \in CallTimes :
       \E resp \in Responses(config.batch_size) : HandleResponse(t, resp, d)
  \/ LoadRunFinish

SpecLoad == InitLoad /\ [][NextLoad]_vars

\* The job-ID lists a dispatch run can record.
IdLists == {[k \in 1..n |-> k] : n \in 0..MaxJobs}

VerifyConfigs ==
  {ConfigFor("run_perf_test", 1, 1, 1, i, t) :
     i \in 1..MaxInterval, t \in 1..MaxTimeout}

\* A Verifier on its own: built with a job-ID list, or with none and the
\* job_ids.txt of an earlier dispatch run.
InitVerify ==
  /\ entry = "run_perf_test"
  /\ config \in VerifyConfigs
  /\ now = 0
  /\ InitLoadTester
  /\ InitRunner("standalone")
  /\ \E ids \in IdLists : InitVerifier(ids)
  /\ NoSampleCall
  /\ InitSide("none", <<>>)

\* One call of Verifier.verify.
VerifyCall ==
  \/ VerifyStart
  \/ BeginRound
  \/ \E r \in HeadAnswers : \E d \in CallTimes : CheckJob(r, d)
  \/ EndRound
  \/ VerifyFinish
  \/ VerifyInterrupt

NextVerify ==
  \/ VerifyCall
  \/ VerifyAgain

SpecVerify == InitVerify /\ [][NextVerify]_vars

\* The whole run: TestRunner.run driving the three phases.
RunRequests == {0, 1}

RunConfigs(e) ==
  {ConfigFor(e, r, b, 1, 1, 1) : r \in RunRequests, b \in BatchSizes}

Init ==
  /\ entry \in EntryPoints
  /\ config \in RunConfigs(entry)
  /\ now = 0
  /\ InitLoadTester
  /\ InitRunner("init")
  /\ InitVerifier(<<>>)
  /\ NoSampleCall
  /\ InitSide("running", <<>>)

NextRunner ==
  \/ RunnerStart
  \/ RunnerLoadRaised
  \/ \E ok \in BOOLEAN : \E d \in CallTimes : QueueLookup(ok, d)
  \/ \E r \in PollAnswers : \E d \in CallTimes : QueuePoll(r, d)
  \/ DrainInterrupt
  \/ SampleAndConstruct
  \/ RunnerVerifyRaised
  \/ CompileResults

NextMain ==
  \/ MainReturn
  \/ MainInterrupted

Next == NextLoad \/ NextRunner \/ VerifyCall \/ NextMain

Spec == Init /\ [][Next]_vars

\* _sample_job_ids called on its own, with a list of job IDs and a cap.
SampleInputs == {[k \in 1..n |-> k] : n \in 0..MaxSampleInput}

SampleCaps == {1, 2, 3, MaxSample}

InitSample ==
  /\ entry = "run_perf_test"
  /\ config = ConfigFor(entry, 1, 1, 1, 1, 1)
  /\ now = 0
  /\ InitLoadTester
  /\ InitRunner("sample_call")
  /\ InitVerifier(<<>>)
  /\ sample_ids \in SampleInputs
  /\ sample_cap \in SampleCaps
  /\ sample_out = <<>>
  /\ InitSide("none", <<>>)

CallSampleJobIds ==
  /\ rn_pc = "sample_call"
  /\ sample_out' \in SampleJobIds(sample_ids, sample_cap)
  /\ rn_pc' = "sample_returned"
  /\ UNCHANGED <<sideVars, sample_ids, sample_cap, interrupted_in, report_file, entry,
                 config, now, ltVars, job_ids_file, load_results_file, rn_start_time, rn_end_time,
                 sqs_calls, sqs_errors, readings, last_poll_time,
                 queue_empty_time, processing_time, rn_results, vfVars>>

NextSample == CallSampleJobIds

SpecSample == InitSample /\ [][NextSample]_vars

\* job_ids.txt written from a recorded list and read back.
InitRoundTrip ==
  /\ entry = "run_perf_test"
  /\ config = ConfigFor(entry, 1, 1, 1, 1, 1)
  /\ now = 0
  /\ InitLoadTester
  /\ InitRunner("standalone")
  /\ InitVerifier(<<>>)
  /\ NoSampleCall
  /\ NoSendCall
  /\ NoSendAll
  /\ proc = [pc |-> "none"]
  /\ written = <<>>
  /\ rt_pc = "recorded"
  /\ rt_job_ids \in RecordedIdLists
  /\ rt_file = <<>>
  /\ rt_loaded = <<>>

NextRoundTrip ==
  \/ SaveJobIds
  \/ LoadJobIdsCall

SpecRoundTrip == InitRoundTrip /\ [][NextRoundTrip]_vars

\* One call of send_request, with an empty stats list.
InitSend ==
  /\ entry = "run_perf_test"
  /\ config = ConfigFor(entry, 1, 1, 1, 1, 1)
  /\ now = 0
  /\ InitLoadTester
  /\ InitRunner("standalone")
  /\ InitVerifier(<<>>)
  /\ NoSampleCall
  /\ NoSendAll
  /\ NoRoundTrip
  /\ proc = [pc |-> "none"]
  /\ written = <<>>
  /\ sr_pc = "idle"
  /\ sr_max_retries \in RetryBudgets
  /\ sr_retry_delay \in RetryDelays
  /\ sr_start_time = 0
  /\ retries = 0
  /\ sr_job_id = "unknown"
  /\ stats = <<>>
  /\ attempts = 0
  /\ sr_slept = <<>>
  /\ observed = <<>>

NextSend ==
  \/ SendRequestCall
  \/ \E o \in SendOutcomes : \E d \in CallTimes : SendAttempt(o, d)
  \/ SendRequestReturn

\* The event loop resumes the coroutine whenever its POST or its sleep has
\* ended, and every POST ends (with a response or an exception).
SpecSend == InitSend /\ [][NextSend]_vars /\ WF_vars(NextSend)

\* The numbers of requests and the concurrency limits of a call of
\* send_all_requests, and the time a POST takes there.
SendAllCounts == {0, 1, 2, 3}
SendAllLimits == {1, 2}
SendAllCallTimes == {TicksPerSecond}

\* One call of send_all_requests.
InitSendAll ==
  /\ entry = "run_perf_test"
  /\ config = ConfigFor(entry, 1, 1, 1, 1, 1)
  /\ now = 0
  /\ InitLoadTester
  /\ InitRunner("standalone")
  /\ InitVerifier(<<>>)
  /\ NoSampleCall
  /\ NoSendCall
  /\ NoRoundTrip
  /\ proc = [pc |-> "none"]
  /\ written = <<>>
  /\ sa_pc = "idle"
  /\ sa_limit \in SendAllLimits
  /\ sa_start = 0
  /\ sem_value = 0
  /\ sem_waiters = <<>>
  /\ \E n \in SendAllCounts : sa_req = [i \in 1..n |-> NewRequest]
  /\ sa_total = 0

NextSendAll ==
  \/ SendAllCall
  \/ \E i \in DOMAIN sa_req : \E o \in SendAllOutcomes :
       \E d \in SendAllCallTimes : SendAllAttempt(i, o, d)
  \/ \E i \in DOMAIN sa_req : SendAllWake(i)
  \/ SemaphoreAdmit
  \/ SendAllReturn

SpecSendAll == InitSendAll /\ [][NextSendAll]_vars

\* _compile_results called by run with the results of a dispatch that
\* counted s successful requests, a processing time of d ticks and the dict
\* verify returned.
CompileSuccessful == {0, 1, 1666, 1667, 5000, 10000}

CompileTimes == {0, 1, 5, 10, 15, 16}

\* The three kinds of dict verify returns, for one job.
VerifyResultForms ==
  {[status |-> st, total_jobs |-> 1, completed_jobs |-> 1,
    has_elapsed |-> st # "error", elapsed |-> 0,
    has_failed |-> FALSE, failed_jobs |-> {}, failed_count |-> 0] :
     st \in {"ok", "interrupted", "error"}}

InitCompile ==
  /\ entry = "run_perf_test"
  /\ config = ConfigFor(entry, 1, 1, 1, 1, 1)
  /\ lt_pc = "returned"
  /\ lt_start_time = 0
  /\ job_ids = <<>>
  /\ latencies = <<>>
  /\ tasks = <<>>
  /\ chunk_i = 0
  /\ batch = <<>>
  /\ last = NoBatch
  /\ outcome_total = 0
  /\ marked_processed = 0
  /\ failed_batch_ids = {}
  /\ next_job_id = 1
  /\ progress = <<>>
  /\ job_ids_file = <<>>
  /\ \E s \in CompileSuccessful :
       /\ successful_requests = s
       /\ lt_results = [total_time |-> 0, successful_requests |-> s,
                        total_requests |-> s, job_ids |-> <<>>]
       /\ load_results_file = lt_results
  /\ \E d \in CompileTimes :
       /\ processing_time = d
       /\ queue_empty_time = d
       /\ last_poll_time = d
       /\ now = d
       /\ lt_end_time = 0
  /\ rn_pc = "verify"
  /\ rn_start_time = 0
  /\ rn_end_time = 0
  /\ sqs_calls = 2
  /\ sqs_errors = 0
  /\ readings = <<0>>
  /\ rn_results = [status |-> "none"]
  /\ report_file = "none"
  /\ interrupted_in = "none"
  /\ vf_pc = "returned"
  /\ vf_job_ids = <<1>>
  /\ total_jobs = 1
  /\ completed_jobs = {1}
  /\ vf_start_time = now
  /\ vf_end_time = now
  /\ jobs_to_check = <<>>
  /\ round_test_time = now
  /\ round_io = 0
  /\ head_calls = 1
  /\ sleeps = 0
  /\ vf_results \in VerifyResultForms
  /\ verify_calls = 1
  /\ prev_call = NoCall
  /\ prev_failed = {}
  /\ round_failed = {}
  /\ last_head = "found"
  /\ NoSampleCall
  /\ InitSide("running", <<JobIdsTxt, LoadResultsJson, VerificationJson>>)

NextCompile ==
  \/ CompileResults
  \/ MainReturn

SpecCompile == InitCompile /\ [][NextCompile]_vars

(* ======================= properties: LoadTester ======================= *)
CeilDiv(a, b) == (a + b - 1) \div b

IsPrefix(s, t) == Len(s) <= Len(t) /\ \A k \in 1..Len(s) : s[k] = t[k]

RECURSIVE SumPosts(_)
SumPosts(n) == IF n = 0 THEN 0 ELSE batch[n].posts + SumPosts(n - 1)

BatchFailed(b) == b.outcome \in {"error_status", "exception"}

\* C1: during LoadTester.run the number of batch requests sent and still
\* awaiting their response never exceeds the configured concurrency.
C1_InFlightAtMostConcurrency ==
  Cardinality(InFlight) <= config.concurrency

\* C1 witness: a full set of C >= 2 batches is awaiting responses while
\* further batches are still undispatched.
C1_Witness ==
  /\ lt_pc = "running"
  /\ config.concurrency >= 2
  /\ Cardinality(InFlight) = config.concurrency
  /\ \E t \in DOMAIN batch : batch[t].pc = "created"

\* C2: for R >= 0 and B >= 1 the run issues exactly ceil(R/B) batch calls,
\* and no batch is ever posted more than once, whether it succeeded or failed.
C2_BatchCallsCeil ==
  /\ \A t \in DOMAIN batch : batch[t].posts <= 1
  /\ lt_pc = "returned" =>
       /\ SumPosts(Len(batch)) = CeilDiv(config.requests, config.batch_size)
       /\ \A t \in DOMAIN batch : batch[t].posts = 1

\* C2 witness: a completed run of two batches, R not a multiple of B, whose
\* last batch failed.
C2_Witness ==
  /\ lt_pc = "returned"
  /\ config.requests = 3
  /\ config.batch_size = 2
  /\ BatchFailed(last)

\* C3 (as claimed): when the run completes, the per-request outcomes summed
\* over the result lists of all batches number R.
C3_OutcomesEqualRequests ==
  lt_pc = "returned" => outcome_total = config.requests

\* C4 (as claimed): a batch that suffers a transport failure returns a
\* failed outcome for every slot and has added no job ID, no latency sample
\* and nothing to the successful count.
C4_FailedBatchAddsNothing ==
  BatchFailed(last) =>
    /\ last.ret = RepeatFalse(config.batch_size)
    /\ last.added = 0

\* C5 (as claimed): a failing batch does not stop dispatch: run does not
\* raise because of it, every batch is still sent, and the report's
\* successful count is the number of success-marked jobs of the batches
\* that did not fail.
C5_FailedBatchDoesNotStopDispatch ==
  /\ lt_pc = "raised" => last = NoBatch
  /\ lt_pc = "returned" =>
       /\ \A t \in DOMAIN batch : batch[t].posts = 1
       /\ lt_results.successful_requests = marked_processed

\* C6: at every point of the run successful_requests = len(job_ids) =
\* len(latencies), and the two lists only ever grow by appends.
C6_CountersAgree ==
  /\ [](/\ successful_requests = Len(job_ids)
        /\ Len(job_ids) = Len(latencies))
  /\ [][lt_pc = "running" =>
          /\ IsPrefix(job_ids, job_ids')
          /\ IsPrefix(latencies, latencies')]_vars

\* C6 witness: job IDs recorded by two different batches, the second of
\* which completed while the first chunk's entries were already present.
C6_Witness ==
  /\ lt_pc = "running"
  /\ Len(job_ids) >= 2
  /\ last.outcome = "exception"
  /\ last.added >= 1
  /\ InFlight # {}

(* ======================= properties: drain wait ======================= *)
Last(q) == q[Len(q)]

DrainReturned ==
  \/ rn_pc \in {"sample", "verify"}
  \/ rn_pc = "returned" /\ vf_pc # "init"

\* C7: _wait_for_empty_queue returns at the first poll that reads 0 and
\* polls no further: a 0 is only ever the last reading, the number of polls
\* is the position of that 0, and the returned timestamp is the time at
\* which that poll was answered.
C7_FirstZeroEndsDrain ==
  /\ \A k \in 1..Len(readings) : readings[k] = 0 => k = Len(readings)
  /\ (readings # <<>> /\ Last(readings) = 0) => DrainReturned
  /\ DrainReturned =>
       /\ readings # <<>>
       /\ Last(readings) = 0
       /\ sqs_calls - 1 = Len(readings)
       /\ queue_empty_time = last_poll_time

\* C7 witness: the readings 5, 3, 0 were polled and the drain wait returned.
C7_Witness ==
  /\ readings = <<5, 3, 0>>
  /\ rn_pc = "sample"

\* C8: once an SQS call (queue lookup or poll) has raised, the run has
\* returned status=error, the failed call was the last SQS call made (the
\* lookup, or the poll after the readings taken so far) and verification
\* was never started.
C8_QueueErrorFailsRun ==
  sqs_errors >= 1 =>
    /\ sqs_errors = 1
    /\ rn_pc = "returned"
    /\ rn_results.status = "error"
    /\ sqs_calls \in {1, Len(readings) + 2}
    /\ vf_pc = "init"
    /\ head_calls = 0

\* C8 witness: a poll raised after a nonzero depth had been read.
C8_Witness ==
  /\ sqs_errors = 1
  /\ readings = <<5>>
  /\ rn_pc = "returned"

(* ======================== properties: Verifier ======================== *)
NeverConfirmedTimeout ==
  /\ vf_pc = "returned"
  /\ vf_results.status # "interrupted"
  /\ vf_job_ids # <<>>
  /\ completed_jobs = {}

TimedOutUnconfirmed ==
  /\ vf_pc = "returned"
  /\ ~TimeRemains(vf_end_time)
  /\ Unconfirmed(vf_job_ids, completed_jobs) # <<>>

\* C10: a verify that ends by timeout with unconfirmed jobs returns a
\* result whose failed_jobs is exactly the set of never-confirmed input job
\* IDs and whose failed_count is total_jobs - completed_jobs.
C10_TimeoutReportsFailedJobs ==
  TimedOutUnconfirmed =>
    /\ vf_results.status = "ok"
    /\ vf_results.has_failed
    /\ vf_results.failed_jobs =
         {j \in SeqToSet(vf_job_ids) : j \notin completed_jobs}
    /\ vf_results.failed_count =
         vf_results.total_jobs - vf_results.completed_jobs
    /\ vf_results.total_jobs = Len(vf_job_ids)

\* C10 witness: the timeout struck with one of two jobs confirmed.
C10_Witness ==
  /\ TimedOutUnconfirmed
  /\ total_jobs = 2
  /\ Cardinality(completed_jobs) = 1

SecondCallOnConfirmed ==
  /\ verify_calls = 2
  /\ vf_pc = "returned"
  /\ interrupted_in = "none"
  /\ prev_call.results.status = "ok"
  /\ prev_call.results.completed_jobs = prev_call.results.total_jobs

\* C11 (as claimed): a second call of verify on a job-ID set that the first
\* call fully confirmed returns at once: completed_jobs = total_jobs, no
\* time has elapsed and no poll interval was slept.
C11_SecondVerifyImmediate ==
  SecondCallOnConfirmed =>
    /\ vf_results.status = "ok"
    /\ vf_results.completed_jobs = vf_results.total_jobs
    /\ vf_results.elapsed = 0
    /\ sleeps = prev_call.sleeps

\* C12: an existence check that raises (not found, or any other error)
\* leaves its job unconfirmed and ends neither the round nor the run, and
\* every job whose check raised in one round is on the list of the next.
C12_CheckErrorIsSoft ==
  /\ [](/\ round_failed \cap completed_jobs = {}
        /\ vf_pc = "checking" =>
             prev_failed \subseteq
               (SeqToSet(jobs_to_check) \cup round_failed \cup completed_jobs))
  /\ [][(head_calls' = head_calls + 1 /\ last_head' # "found") =>
          /\ completed_jobs' = completed_jobs
          /\ vf_pc' = "checking"
          /\ rn_pc' = rn_pc]_vars

\* C12 witness: in a later round a job whose check raised in the round
\* before has been checked again and confirmed, and the check of another
\* job has just raised an error other than not-found.
C12_Witness ==
  /\ vf_pc = "checking"
  /\ prev_failed \cap completed_jobs # {}
  /\ round_failed # {}
  /\ last_head = "error"

(* ======================= properties: interrupts ======================= *)
\* C13 (as claimed): an interrupt that arrives inside the verification loop
\* makes verify return a result with status "interrupted" whose
\* completed_jobs and total_jobs are the sizes of the confirmed set and of
\* the input at that moment.
C13_InterruptReturnsSnapshot ==
  [][(interrupted_in = "none" /\ interrupted_in' = "verify") =>
       /\ vf_pc' = "returned"
       /\ vf_results'.status = "interrupted"
       /\ vf_results'.completed_jobs = Cardinality(completed_jobs)
       /\ vf_results'.total_jobs = Len(vf_job_ids)]_vars

\* C14 (as claimed): a run that was interrupted during the drain wait or
\* during verification does not raise and does not return status=error: it
\* returns a report with the interrupted status and the dispatch metrics.
C14_InterruptedRunReports ==
  /\ interrupted_in # "none" => rn_pc # "raised"
  /\ (interrupted_in # "none" /\ rn_pc = "returned") =>
       /\ rn_results.status = "interrupted"
       /\ rn_results.successful_requests = lt_results.successful_requests
       /\ rn_results.total_requests = lt_results.total_requests

(* ======================== properties: sampling ======================== *)
\* C15: from a list of N job IDs and a cap K, _sample_job_ids returns
\* exactly K IDs, each from the list and pairwise distinct, when N > K, and
\* the whole list when N <= K; run calls it with K = 100.
C15_SampleOfCapDistinct ==
  rn_pc = "sample_returned" =>
    IF Len(sample_ids) > sample_cap
    THEN /\ Len(sample_out) = sample_cap
         /\ \A k \in 1..Len(sample_out) : sample_out[k] \in SeqToSet(sample_ids)
         /\ \A a, b \in 1..Len(sample_out) :
              a # b => sample_out[a] # sample_out[b]
    ELSE sample_out = sample_ids

\* C15 witness: three of five job IDs were drawn, not in list order.
C15_Witness ==
  /\ rn_pc = "sample_returned"
  /\ Len(sample_ids) = 5
  /\ sample_cap = 3
  /\ sample_out = <<5, 1, 3>>

(* ========================= properties: phases ========================= *)
\* C16 (as claimed): every job ID the Verifier checks was recorded from a
\* success-marked result of this run's dispatch, and no job of a batch that
\* failed dispatch is verified; with no successful job nothing is verified.
C16_VerifiedWereDispatched ==
  vf_pc # "init" =>
    /\ SeqToSet(vf_job_ids) \subseteq SeqToSet(job_ids)
    /\ SeqToSet(vf_job_ids) \cap failed_batch_ids = {}
    /\ lt_results.successful_requests = 0 => head_calls = 0

\* C17: the phases of TestRunner.run follow one another without overlap:
\* no queue call before every batch has completed and dispatch returned, no
\* sampling before the queue was read empty, no existence check before
\* sampling, no merge before verify has returned.
C17_PhasesInOrder ==
  /\ sqs_calls > 0 =>
       /\ lt_pc = "returned"
       /\ \A t \in DOMAIN batch : batch[t].pc = "done"
  /\ rn_pc \in {"sample", "verify"} =>
       /\ readings # <<>>
       /\ Last(readings) = 0
  /\ (vf_pc # "init" \/ head_calls > 0) =>
       /\ rn_pc \in {"verify", "returned"}
       /\ Last(readings) = 0
       /\ verify_calls = 1
  /\ vf_pc \in {"loop", "checking"} => rn_pc = "verify"
  /\ (rn_results.status = "ok" \/ report_file # "none") =>
       /\ rn_pc = "returned"
       /\ vf_pc = "returned"
  /\ (rn_results.status = "error"
        /\ rn_results.error \in {"KeyError", "ZeroDivisionError"}) =>
       vf_pc \in {"returned", "raised"}

\* C17 witness: a run that went through dispatch, two queue polls, sampling
\* and an existence check and returned the merged report.
C17_Witness ==
  /\ rn_pc = "returned"
  /\ rn_results.status = "ok"
  /\ Len(readings) >= 2
  /\ head_calls >= 1
  /\ successful_requests = 1

\* C18: the processing time is the drain timestamp minus the start
\* timestamp of the run (the moment dispatch is started: nothing waits
\* between the two); it is fixed when the drain wait returns, verification
\* does not change it, and the report carries that value.
C18_ProcessingTimeFixedAtDrain ==
  /\ [](DrainReturned =>
          /\ processing_time = queue_empty_time - rn_start_time
          /\ processing_time = queue_empty_time - lt_start_time)
  /\ [](rn_results.status = "ok" =>
          rn_results.total_processing_time = queue_empty_time - rn_start_time)
  /\ [][rn_pc = "verify" => processing_time' = processing_time]_vars

\* C18 witness: a report whose processing time is positive and smaller
\* than the duration of the run, verification having taken time.
C18_Witness ==
  /\ rn_pc = "returned"
  /\ rn_results.status = "ok"
  /\ rn_results.total_processing_time > 0
  /\ vf_results.elapsed > 0
  /\ rn_end_time - rn_start_time > rn_results.total_processing_time

(* ========================= properties: report ========================= *)
RECURSIVE Gcd(_, _)
Gcd(a, b) == IF b = 0 THEN a ELSE Gcd(b, a % b)

\* Two fractions with positive denominators have the same value.
SameFraction(f, g) ==
  LET nf == Gcd(f.num, f.den)
      ng == Gcd(g.num, g.den)
  IN /\ f.num \div nf = g.num \div ng
     /\ f.den \div nf = g.den \div ng

\* C19: for S > 0 successful requests and a processing time of D > 0
\* seconds the report exists, its extrapolated_million_seconds is
\* 1,000,000 * D / S, and goal_achieved is true exactly when
\* extrapolated_million_seconds / 60 <= 10.  (D is processing_time /
\* TicksPerSecond; the fractions are compared by cross-multiplication.)
C19_ExtrapolationArithmetic ==
  (/\ rn_pc = "returned"
   /\ vf_results.status = "ok"
   /\ lt_results.successful_requests > 0
   /\ processing_time > 0) =>
    LET S == lt_results.successful_requests
        e == rn_results.extrapolated_million_seconds
    IN /\ rn_results.status = "ok"
       /\ rn_results.has_performance
       /\ e.den > 0
       /\ SameFraction(e, [num |-> 1000000 * processing_time,
                              den |-> S * TicksPerSecond])
       /\ rn_results.goal_achieved <=> (e.num <= 10 * 60 * e.den)
       /\ rn_results.goal_achieved <=>
            (1000000 * processing_time <= 10 * 60 * S * TicksPerSecond)

\* C19 witness: 5000 successful requests in 3 seconds extrapolate to 600
\* seconds, exactly 10 minutes: the goal is achieved.
C19_Witness ==
  /\ rn_pc = "returned"
  /\ rn_results.status = "ok"
  /\ lt_results.successful_requests = 5000
  /\ processing_time = 3 * TicksPerSecond
  /\ rn_results.extrapolated_million_seconds.num =
       600 * rn_results.extrapolated_million_seconds.den
  /\ rn_results.goal_achieved

MergeRaises ==
  \/ vf_results.status # "ok"
  \/ processing_time > 0 /\ lt_results.successful_requests = 0

\* C20: when a phase raises an error, no later phase is executed and run
\* returns a report with status=error and the reason; run itself raises
\* only for an operator interrupt during the drain wait.
C20_PhaseErrorYieldsErrorReport ==
  /\ rn_pc = "raised" => interrupted_in = "drain"
  /\ lt_pc = "raised" =>
       /\ rn_pc \in {"load", "returned"}
       /\ sqs_calls = 0
       /\ vf_pc = "init"
       /\ rn_pc = "returned" => rn_results.error = "AttributeError"
  /\ sqs_errors > 0 =>
       /\ rn_pc = "returned"
       /\ rn_results.error = "SqsError"
       /\ vf_pc = "init"
  /\ vf_pc = "raised" =>
       /\ rn_pc \in {"verify", "returned"}
       /\ rn_pc = "returned" => rn_results.error = "ZeroDivisionError"
  /\ (rn_pc = "returned" /\ vf_pc = "returned" /\ MergeRaises) =>
       rn_results.error \in {"KeyError", "ZeroDivisionError"}
  /\ (lt_pc = "raised" \/ sqs_errors > 0 \/ vf_pc = "raised"
        \/ (vf_pc = "returned" /\ MergeRaises)) =>
       (rn_pc = "returned" => rn_results.status = "error")

\* C20 witness: verify raised and run returned the error report.
C20_Witness ==
  /\ vf_pc = "raised"
  /\ rn_pc = "returned"
  /\ rn_results.status = "error"
  /\ rn_results.error = "ZeroDivisionError"

(* ===================== properties: error reports ====================== *)
\* C21 (as claimed): a status=error report returned after dispatch has
\* completed (the drain wait, verification or the merge failed) still
\* contains the dispatch metrics computed before the failure.
C21_ErrorReportKeepsMetrics ==
  (rn_pc = "returned" /\ rn_results.status = "error" /\ lt_pc = "returned") =>
    /\ "successful_requests" \in DOMAIN rn_results
    /\ "total_requests" \in DOMAIN rn_results
    /\ rn_results.successful_requests = lt_results.successful_requests
    /\ rn_results.total_requests = lt_results.total_requests

\* C22 (as claimed): when the run ended with status=error, the process has
\* not exited before a final report recording that status and the reason
\* was written to the output directory.
C22_ErrorReportOnDisk ==
  (proc.pc = "exited" /\ rn_results.status = "error") =>
    /\ report_file # "none"
    /\ report_file.status = "error"
    /\ report_file.error = rn_results.error

(* ======================= properties: exit code ======================== *)
\* The run returned a merged report whose performance section says the
\* goal was met (b = TRUE) or missed (b = FALSE).
SucceededWithGoal(b) ==
  /\ rn_results.status = "ok"
  /\ rn_results.has_performance
  /\ rn_results.goal_achieved = b

\* C23 (as claimed): the exit code is 0 exactly when the run succeeded and
\* goal_achieved is true, 2 exactly when it succeeded and goal_achieved is
\* false, and 1 exactly when the run ended with status=error.
C23_ExitCodeByGoal ==
  proc.pc = "exited" =>
    /\ proc.code = 0 <=> SucceededWithGoal(TRUE)
    /\ proc.code = 2 <=> SucceededWithGoal(FALSE)
    /\ proc.code = 1 <=> rn_results.status = "error"

\* C23 (amended): the exit code is 1 exactly when the run ended with
\* status=error, 2 exactly when it succeeded and its report has a
\* performance section whose goal_achieved is false, and 0 exactly when it
\* succeeded and goal_achieved is not false: it is true, or the report has
\* no performance section (the measured processing time was not positive).
C23_ExitCodeByGoalIfComputed ==
  proc.pc = "exited" =>
    /\ proc.code = 1 <=> rn_results.status = "error"
    /\ proc.code = 2 <=> SucceededWithGoal(FALSE)
    /\ proc.code = 0 <=>
         (/\ rn_results.status = "ok"
          /\ rn_results.has_performance => rn_results.goal_achieved)

\* C23 witness: a run with one successful request whose drain timestamp is
\* the start timestamp returned a report without a performance section,
\* and the process exited with 0.
C23_Witness ==
  /\ proc.pc = "exited"
  /\ proc.code = 0
  /\ rn_results.status = "ok"
  /\ ~rn_results.has_performance
  /\ lt_results.successful_requests = 1

\* C24: a verification that timed out with unconfirmed jobs does not fail
\* the run: the merged report is returned and saved with the partial
\* verification counts, its status is not error, and the exit code is 0 or
\* 2, 2 exactly when the report's goal_achieved is false.
C24_TimeoutIsNotFatal ==
  (TimedOutUnconfirmed /\ rn_pc = "returned") =>
    /\ rn_results.status = "ok"
    /\ rn_results.total_jobs = Len(vf_job_ids)
    /\ rn_results.completed_jobs = Cardinality(completed_jobs)
    /\ rn_results.completed_jobs < rn_results.total_jobs
    /\ report_file = rn_results
    /\ proc.pc = "exited" =>
         /\ proc.code \in {0, 2}
         /\ proc.code = 2 <=> SucceededWithGoal(FALSE)

\* C24 witness: no job of the sample was confirmed before the timeout, the
\* report was saved and the process exited with 2, the goal being missed.
C24_Witness ==
  /\ TimedOutUnconfirmed
  /\ proc.pc = "exited"
  /\ proc.code = 2
  /\ report_file = rn_results
  /\ rn_results.completed_jobs = 0
  /\ rn_results.total_jobs = 1

(* ======================= properties: persistence ====================== *)
\* C25: LoadTester.run has written the job-ID list and then the metrics
\* document before it returns, so that both are on disk before the first
\* queue call of the drain wait; the persisted job-ID list is the job_ids
\* of the returned results and the metrics document is those results.
C25_SavedBeforeReturn ==
  /\ lt_pc = "returned" =>
       /\ SubSeq(written, 1, 2) = <<JobIdsTxt, LoadResultsJson>>
       /\ job_ids_file = lt_results.job_ids
       /\ load_results_file = lt_results
  /\ sqs_calls > 0 =>
       /\ Len(written) >= 2
       /\ job_ids_file = lt_results.job_ids
       /\ load_results_file = lt_results
  /\ lt_pc \in {"init", "running", "raised"} => written = <<>>

\* C25 witness: the drain wait is polling after a dispatch that recorded a
\* job ID; the list and the metrics document are on disk.
C25_Witness ==
  /\ rn_pc = "drain_poll"
  /\ sqs_calls >= 2
  /\ job_ids_file = <<1>>
  /\ load_results_file.successful_requests = 1
  /\ written = <<JobIdsTxt, LoadResultsJson>>

\* A job ID that is a non-empty string without whitespace at either end
\* and without a line break.
CleanId(id) ==
  /\ id # <<>>
  /\ Head(id) \notin Whitespace
  /\ id[Len(id)] \notin Whitespace
  /\ \A k \in 1..Len(id) : id[k] # "\n"

\* C26 (as claimed): the job-ID file written by the dispatcher and read
\* back by Verifier.load_job_ids yields the sequence of job IDs the
\* dispatcher recorded.
C26_RoundTrip ==
  rt_pc = "loaded" => rt_loaded = rt_job_ids

\* C26 (amended): when every recorded job ID is a non-empty string without
\* whitespace at either end and without a line break, the file holds one
\* line per job ID and load_job_ids yields the recorded sequence.
C26_RoundTripOfCleanIds ==
  (rt_pc = "loaded" /\ \A k \in 1..Len(rt_job_ids) : CleanId(rt_job_ids[k])) =>
    /\ Len(FileLines(rt_file)) = Len(rt_job_ids)
    /\ rt_loaded = rt_job_ids

\* C26 witness: two job IDs, one with a blank inside, came back unchanged.
C26_Witness ==
  /\ rt_pc = "loaded"
  /\ rt_job_ids = <<<<"a", " ", "b">>, <<"a">>>>
  /\ rt_loaded = rt_job_ids

(* ======================= properties: admission ======================== *)
\* C27 (as claimed): a batch that finishes while undispatched batches
\* remain makes room for the next one at once: dispatch never waits with
\* fewer than C batches in flight, a batch not yet admitted and none about
\* to be sent.
C27_AdmittedAsCompleted ==
  lt_pc = "running" =>
    ~(/\ \E t \in DOMAIN batch : batch[t].pc = "created"
      /\ \A t \in DOMAIN batch : batch[t].pc # "scheduled"
      /\ InFlight # {}
      /\ Cardinality(InFlight) < Concurrency)

RECURSIVE SumPayloads(_)
SumPayloads(n) ==
  IF n = 0 THEN 0 ELSE Len(batch[n].payload) + SumPayloads(n - 1)

\* C30 (as claimed): a batch carries at most B payloads; when the run has
\* completed, each request index 0..R-1 was submitted in exactly one batch,
\* the payloads sent number R, and the last batch carried R mod B payloads
\* when B does not divide R.
C30_PayloadsCoverRequests ==
  /\ \A t \in DOMAIN batch : Len(batch[t].payload) <= config.batch_size
  /\ lt_pc = "returned" =>
       /\ \A i \in 0..(config.requests - 1) :
            Cardinality({t \in DOMAIN batch :
                           i \in SeqToSet(batch[t].payload)}) = 1
       /\ SumPayloads(Len(batch)) = config.requests
       /\ config.requests % config.batch_size # 0 =>
            Len(batch[Len(batch)].payload) =
              config.requests % config.batch_size

(* ======================== properties: retries ========================= *)
\* C28: send_request makes at most max_retries + 1 attempts, 503 responses
\* and exceptions drawing on the same budget; every attempt but the first
\* follows one sleep of retry_delay and no other sleep is taken; the call
\* always returns, with a job ID and a duration, and has then appended
\* exactly one entry to stats.
C28_BoundedRetries ==
  /\ [](/\ attempts <= sr_max_retries + 1
        /\ retries <= sr_max_retries
        /\ Len(sr_slept) = retries
        /\ \A k \in 1..Len(sr_slept) : sr_slept[k] = sr_retry_delay
        /\ sr_pc = "loop" => attempts = retries
        /\ sr_pc \in {"done", "returned"} => attempts = retries + 1
        /\ sr_pc \in {"idle", "loop", "done"} => stats = <<>>
        /\ sr_pc = "returned" =>
             /\ stats = <<now - sr_start_time>>
             /\ sr_job_id # "unknown")
  /\ <>(sr_pc = "returned")

\* C28 witness: with the default budget of 3 the call returned after four
\* attempts that met both exceptions and 503 responses.
C28_Witness ==
  /\ sr_pc = "returned"
  /\ sr_max_retries = 3
  /\ attempts = 4
  /\ observed = <<"send_error", "status_503", "send_error", "status_503">>
  /\ Len(stats) = 1

\* C29 (as claimed): the request is sent again only after an exception
\* while sending or a 503: no attempt follows a response with another
\* status, whatever its body.
C29_RetriesOnlyTransportErrors ==
  \A k \in 1..(Len(observed) - 1) : observed[k] \in {"send_error", "status_503"}

(* ================= properties: errors in the drain wait =============== *)
\* A poll of the queue depth (not the lookup of the queue URL) has raised.
PollRaised ==
  /\ sqs_errors >= 1
  /\ sqs_calls >= 2

\* C31 (as claimed): a transport error in one queue-depth poll is isolated
\* to that round: the drain wait goes on (or has since returned on a
\* reading of 0) and the run has not ended with status=error because of it.
C31_PollErrorIsolated ==
  PollRaised =>
    /\ rn_pc \in {"drain_poll", "sample", "verify", "returned"}
    /\ rn_pc = "returned" => rn_results.status # "error"

\* The queue URL was found: the polling loop has been entered.
DrainEntered ==
  /\ sqs_calls >= 1
  /\ ~(sqs_calls = 1 /\ sqs_errors = 1)

\* Some poll has read a depth of 0.
ReadZero ==
  /\ readings # <<>>
  /\ Last(readings) = 0

\* C32 (as claimed): the drain wait has no timeout of its own: it has ended
\* if and only if some poll read 0 or a poll failed, whatever time has
\* passed.
C32_DrainEndsOnZeroOrError ==
  DrainEntered => (rn_pc # "drain_poll" <=> (ReadZero \/ PollRaised))

\* C32 (amended): the drain wait has no timeout of its own: it has ended if
\* and only if some poll read 0, a poll failed or the operator interrupted
\* it; while every reading is nonzero it is still polling, whatever time has
\* passed, and once a poll has read 0 it has returned.
C32_DrainEndsOnZeroErrorOrInterrupt ==
  /\ DrainEntered =>
       (rn_pc # "drain_poll" <=>
          (ReadZero \/ PollRaised \/ interrupted_in = "drain"))
  /\ ReadZero => (DrainReturned /\ queue_empty_time = last_poll_time)

\* C32 witness: three polls in a row read a nonzero depth, each answered
\* after a second, and the drain wait is still polling.
C32_Witness ==
  /\ readings = <<5, 3, 5>>
  /\ rn_pc = "drain_poll"
  /\ interrupted_in = "none"
  /\ now - last_poll_time = DrainSleepTicks
  /\ now - rn_start_time >= 3 * (TicksPerSecond + DrainSleepTicks)

(* ================== properties: rounds of the Verifier ================ *)
\* No input job ID is unconfirmed.
AllConfirmed == Unconfirmed(vf_job_ids, completed_jobs) = <<>>

\* C33: when the loop of verify finds no job unconfirmed, verify returns at
\* once (no time passes, no existence check, no sleep) with completed_jobs =
\* total_jobs and no failed-job list; and from the moment the last job is
\* confirmed verify neither sleeps nor checks any job again.
C33_NothingLeftEndsVerify ==
  /\ [][(/\ vf_pc = "loop"
          /\ AllConfirmed
          /\ vf_pc' # "loop"
          /\ interrupted_in' = interrupted_in) =>
           /\ vf_pc' = "returned"
           /\ now' = now
           /\ head_calls' = head_calls
           /\ sleeps' = sleeps
           /\ vf_results'.completed_jobs = vf_results'.total_jobs
           /\ vf_results'.total_jobs = Len(vf_job_ids)
           /\ ~vf_results'.has_failed]_vars
  /\ [][(vf_pc \in {"checking", "loop"} /\ AllConfirmed) =>
           /\ now' = now
           /\ head_calls' = head_calls
           /\ sleeps' = sleeps]_vars

\* C33 witness: the second job was confirmed in the second round, after one
\* sleep and three existence checks, and verify has returned.
C33_Witness ==
  /\ vf_pc = "returned"
  /\ verify_calls = 1
  /\ total_jobs = 2
  /\ vf_results.status = "ok"
  /\ vf_results.completed_jobs = 2
  /\ sleeps = 1
  /\ head_calls = 3
  /\ vf_results.elapsed < config.timeout * TicksPerSecond

\* C34: within one call of verify the confirmed set only grows and is a
\* subset of the input job IDs, so completed_jobs <= total_jobs throughout,
\* and an existence check is only ever made for a job that is not confirmed:
\* a job confirmed in one round is not checked again in a later one.
C34_ConfirmedOnlyGrows ==
  /\ [](vf_pc \in {"loop", "checking", "returned"} =>
          /\ completed_jobs \subseteq SeqToSet(vf_job_ids)
          /\ Cardinality(completed_jobs) <= total_jobs
          /\ SeqToSet(jobs_to_check) \cap completed_jobs = {})
  /\ [][(vf_pc \in {"loop", "checking"}) =>
          (completed_jobs \subseteq completed_jobs')]_vars
  /\ [][head_calls' = head_calls + 1 =>
          /\ jobs_to_check # <<>>
          /\ Head(jobs_to_check) \notin completed_jobs
          /\ completed_jobs' \subseteq completed_jobs \cup {Head(jobs_to_check)}]_vars

\* C34 witness: the first job was confirmed in the first round, the second
\* round is under way and has only the other job on its list.
C34_Witness ==
  /\ vf_pc = "checking"
  /\ verify_calls = 1
  /\ vf_job_ids = <<1, 2>>
  /\ completed_jobs = {1}
  /\ sleeps = 1
  /\ head_calls = 2
  /\ jobs_to_check = <<2>>

\* C35 (as claimed): after a round that leaves jobs unconfirmed verify
\* sleeps the poll interval only if time remains before the timeout; once
\* the timeout has elapsed it goes on to return without sleeping.
C35_SleepsOnlyIfTimeRemains ==
  [][(vf_pc = "checking" /\ jobs_to_check = <<>> /\ vf_pc' = "loop") =>
       /\ sleeps' = sleeps + 1 => TimeRemains(now)
       /\ ~TimeRemains(now) => now' = now]_vars

(* ================= properties: progress of the dispatch =============== *)
\* C36 (as claimed): progress is reported once for every further multiple
\* of 100 the count of recorded job IDs has reached or passed, and not at
\* all while that count is 0: the reports made so far number
\* floor(count / 100), and none names the count 0.
C36_ProgressEveryHundred ==
  /\ Len(progress) = Len(job_ids) \div ProgressEvery
  /\ \A k \in DOMAIN progress : progress[k] > 0

\* The per-job outcomes a results array stands for.
PerJobResults(rs) == [k \in 1..Len(rs) |-> rs[k] = "success"]

\* C37 (as claimed): a batch answered with a well-formed body and a 2xx
\* status other than 200 has its results processed as under 200: one job ID
\* is recorded for every successful entry and the batch returns the per-job
\* outcomes, not a whole-batch failure.
C37_Other2xxProcessed ==
  [][\A t \in DOMAIN batch : \A resp \in Responses(config.batch_size) :
       \A d \in CallTimes :
         (/\ HandleResponse(t, resp, d)
          /\ resp.kind = "http"
          /\ resp.status \in 201..299
          /\ \A k \in 1..Len(resp.results) :
                resp.results[k] \in {"success", "failed"}) =>
           /\ Len(job_ids') = Len(job_ids) + CountSuccessMarked(resp.results)
           /\ successful_requests' =
                successful_requests + CountSuccessMarked(resp.results)
           /\ last'.ret = PerJobResults(resp.results)]_vars

(* ================= properties: send_all_requests ====================== *)
\* C38: in send_all_requests at most concurrency_limit requests hold a slot
\* at any instant, a request in its retry sleep among them (the semaphore's
\* counter is the limit less the holders), and whenever a request waits for
\* a slot while fewer than concurrency_limit hold one, the request at the
\* head of the queue can be admitted at once, whatever the requests in
\* flight are doing.
C38_SlotsRefilledAtOnce ==
  sa_pc = "gathering" =>
    /\ Cardinality(SlotHolders) <= sa_limit
    /\ sem_value = sa_limit - Cardinality(SlotHolders)
    /\ \A k \in 1..Len(sem_waiters) : sa_req[sem_waiters[k]].pc = "waiting"
    /\ \A i \in DOMAIN sa_req :
         sa_req[i].pc = "waiting" => \E k \in 1..Len(sem_waiters) : sem_waiters[k] = i
    /\ (sem_waiters # <<>> /\ Cardinality(SlotHolders) < sa_limit) =>
         ENABLED SemaphoreAdmit

\* C38 witness: with a limit of 2 and three requests, the second request
\* has finished and the third was admitted in its place while the first is
\* still in its retry sleep, holding its slot.
C38_Witness ==
  /\ sa_pc = "gathering"
  /\ sa_limit = 2
  /\ Len(sa_req) = 3
  /\ sa_req[1].pc = "sleeping"
  /\ sa_req[2].pc = "done"
  /\ sa_req[3].pc = "posting"
  /\ sem_value = 0

(* ================= properties: runs without a job ===================== *)
\* The run has returned after a dispatch that recorded no job, with no SQS
\* error and no interrupt on the way.
ReturnedWithoutJobs ==
  /\ rn_pc = "returned"
  /\ lt_pc = "returned"
  /\ lt_results.successful_requests = 0
  /\ lt_results.job_ids = <<>>
  /\ sqs_errors = 0
  /\ interrupted_in = "none"

\* C39 (as claimed): a run in which no job succeeds at dispatch still goes
\* through every phase and returns a normal report, with
\* successful_requests = 0 and total_jobs = 0, not a status=error result.
C39_NoJobsStillReports ==
  ReturnedWithoutJobs =>
    /\ rn_results.status = "ok"
    /\ rn_results.successful_requests = 0
    /\ rn_results.total_jobs = 0
    /\ report_file = rn_results

(* ================= properties: configuration ========================== *)
\* C40 (as claimed): whichever entry point built it, the configuration the
\* dispatcher reads has a batch size, so LoadTester.run gets as far as
\* sending its batches and no run ends with status=error before a request
\* was sent because the batch size is missing.
C40_BatchSizeDefined ==
  /\ lt_pc # "init" => config.has_batch_size
  /\ lt_pc # "raised"
  /\ rn_pc = "returned" => lt_pc = "returned"

====
